---- MODULE Spec2Model ----
(***************************************************************************)
(* CodeFlow: the generation request orchestrator of the page component     *)
(* (handleGenerateDiagram and its retry loop), the server action and the   *)
(* generation flow it calls, the input handlers of the page, and the       *)
(* diagram viewer (render effect, click handlers and restyle effect).      *)
(*                                                                         *)
(* A JavaScript string is a sequence of one-character strings, so that     *)
(* includes, toLowerCase, trim and startsWith are computed on the text.    *)
(***************************************************************************)
EXTENDS Integers, Sequences, FiniteSets, TLC

\* ------------------------------------------------------------------------
\* Bounds of the model
\* ------------------------------------------------------------------------
\* Number of handleGenerateDiagram activations that can exist side by side.
MaxLoops == 2
\* Milliseconds that pass in one step of the clock.
TickMs == 1500
\* Number of mermaid.render calls whose closures are kept side by side.
MaxRenders == 2

\* ------------------------------------------------------------------------
\* JavaScript values
\* ------------------------------------------------------------------------
\* null / undefined where a string is expected: a sequence that is no text
\* (its only element is not a single character).
null == <<"null">>

\* JavaScript truthiness of a string-or-null value.
truthy(s) == s # null /\ s # <<>>

\* a || b on string-or-null values.
orElse(a, b) == IF truthy(a) THEN a ELSE b

Min(a, b) == IF a < b THEN a ELSE b

\* The lower-case letter of every upper-case letter.
LowerOf ==
  LET UPPER == <<"A","B","C","D","E","F","G","H","I","J","K","L","M","N","O","P","Q","R","S","T","U","V","W","X","Y","Z">>
      LOWER == <<"a","b","c","d","e","f","g","h","i","j","k","l","m","n","o","p","q","r","s","t","u","v","w","x","y","z">>
  IN [c \in {UPPER[i] : i \in 1..Len(UPPER)} |->
       LOWER[CHOOSE i \in 1..Len(UPPER) : UPPER[i] = c]]

toLowerCaseChar(c) == IF c \in DOMAIN LowerOf THEN LowerOf[c] ELSE c

\* String.prototype.toLowerCase
toLowerCase(s) == [i \in 1..Len(s) |-> toLowerCaseChar(s[i])]

\* String.prototype.includes
includes(s, sub) ==
  \/ sub = <<>>
  \/ \E i \in 1..(Len(s) - Len(sub) + 1) :
       s[i] = sub[1] /\ SubSeq(s, i, i + Len(sub) - 1) = sub

\* String.prototype.startsWith
startsWith(s, prefix) ==
  Len(s) >= Len(prefix) /\ SubSeq(s, 1, Len(prefix)) = prefix

isWhiteSpace(c) == c \in {" ", "\n", "\t"}

RECURSIVE trimStart(_)
trimStart(s) ==
  IF Len(s) > 0 /\ isWhiteSpace(s[1]) THEN trimStart(Tail(s)) ELSE s

RECURSIVE trimEnd(_)
trimEnd(s) ==
  IF Len(s) > 0 /\ isWhiteSpace(s[Len(s)])
  THEN trimEnd(SubSeq(s, 1, Len(s) - 1))
  ELSE s

\* String.prototype.trim
trim(s) == trimEnd(trimStart(s))

\* String.prototype.substring(0, end)
substring(s, end) == SubSeq(s, 1, Min(end, Len(s)))

DIGITS == <<"0","1","2","3","4","5","6","7","8","9">>

\* Number to decimal text, as a template literal prints it.
RECURSIVE numberToString(_)
numberToString(n) ==
  IF n < 10 THEN <<DIGITS[n + 1]>>
  ELSE numberToString(n \div 10) \o <<DIGITS[(n % 10) + 1]>>

\* ------------------------------------------------------------------------
\* The generation flow and the server action
\* ------------------------------------------------------------------------
NO_FILES_MESSAGE == <<"N","o"," ","f","i","l","e","s"," ","p","r","o","v","i","d","e","d"," ","f","o","r"," ","d","i","a","g","r","a","m"," ","g","e","n","e","r","a","t","i","o","n",".">>
EMPTY_OUTPUT_MESSAGE == <<"A","I"," ","f","a","i","l","e","d"," ","t","o"," ","g","e","n","e","r","a","t","e"," ","a"," ","M","e","r","m","a","i","d"," ","d","i","a","g","r","a","m","."," ","T","h","e"," ","o","u","t","p","u","t"," ","w","a","s"," ","e","m","p","t","y"," ","o","r"," ","i","n","v","a","l","i","d",".">>
INVALID_START_MESSAGE == <<"G","e","n","e","r","a","t","e","d"," ","d","i","a","g","r","a","m"," ","d","o","e","s"," ","n","o","t"," ","s","t","a","r","t"," ","w","i","t","h"," ","a"," ","v","a","l","i","d"," ","M","e","r","m","a","i","d"," ","g","r","a","p","h"," ","t","y","p","e"," ","(","e",".","g",".",","," ","g","r","a","p","h"," ","T","D",","," ","f","l","o","w","c","h","a","r","t"," ","L","R",")","."," ","T","h","e"," ","A","I"," ","r","e","t","u","r","n","e","d",":"," ">>
\* Faulty variant of UNKNOWN_ERROR_MESSAGE: the text asks to try again later.
UNKNOWN_ERROR_MESSAGE_TryLater == <<"A","n"," ","u","n","k","n","o","w","n"," ","e","r","r","o","r"," ","o","c","c","u","r","r","e","d",","," ","t","r","y"," ","a","g","a","i","n"," ","l","a","t","e","r">>
UNKNOWN_ERROR_MESSAGE == <<"A","n"," ","u","n","k","n","o","w","n"," ","e","r","r","o","r"," ","o","c","c","u","r","r","e","d">>

\* The text of the other revision of the server action.
UNKNOWN_ERROR_MESSAGE_GENERATION == <<"A","n"," ","u","n","k","n","o","w","n"," ","e","r","r","o","r"," ","o","c","c","u","r","r","e","d"," ","d","u","r","i","n","g"," ","d","i","a","g","r","a","m"," ","g","e","n","e","r","a","t","i","o","n">>

\* The alternatives of the prefix pattern, matched with the i flag.
GRAPH_TYPES == <<
  <<"g","r","a","p","h">>, <<"f","l","o","w","c","h","a","r","t">>, <<"s","e","q","u","e","n","c","e","D","i","a","g","r","a","m">>, <<"c","l","a","s","s","D","i","a","g","r","a","m">>,
  <<"s","t","a","t","e","D","i","a","g","r","a","m">>, <<"e","r","D","i","a","g","r","a","m">>, <<"g","a","n","t","t">>, <<"p","i","e">>, <<"j","o","u","r","n","e","y">>,
  <<"r","e","q","u","i","r","e","m","e","n","t","D","i","a","g","r","a","m">>, <<"C","4","C","o","n","t","e","x","t">>, <<"m","i","n","d","m","a","p">> >>

\* Faulty variant of matchesGraphType: every text passes.
matchesGraphType_AnyText(text) == TRUE

\* text.match(/^(graph|flowchart|...)/i)
matchesGraphType(text) ==
  \E k \in 1..Len(GRAPH_TYPES) :
    startsWith(toLowerCase(text), toLowerCase(GRAPH_TYPES[k]))

\* What the prompt call of the flow does: it resolves with an output whose
\* mermaidDiagram is text (null when the output or the field is absent), or
\* it throws an Error with a message, or it throws a value that is no Error.
PromptOutput(text) == [kind |-> "output", text |-> text]
PromptError(message) == [kind |-> "error", text |-> message]
PromptNonError == [kind |-> "nonError", text |-> null]

\* Completion of an async function: returned value or thrown value.
Returned(diagram) ==
  [threw |-> FALSE, isError |-> FALSE, message |-> null, mermaidDiagram |-> diagram]
ThrewError(message) ==
  [threw |-> TRUE, isError |-> TRUE, message |-> message, mermaidDiagram |-> null]
ThrewNonError ==
  [threw |-> TRUE, isError |-> FALSE, message |-> null, mermaidDiagram |-> null]

generateMermaidDiagramFlow(input, reply) ==
  IF Len(input) = 0 THEN ThrewError(NO_FILES_MESSAGE)
  ELSE IF reply.kind = "error" THEN ThrewError(reply.text)
  ELSE IF reply.kind = "nonError" THEN ThrewNonError
  ELSE IF ~truthy(reply.text) THEN ThrewError(EMPTY_OUTPUT_MESSAGE)
  ELSE IF ~matchesGraphType(trim(reply.text))
    THEN ThrewError(INVALID_START_MESSAGE \o substring(reply.text, 100))
  ELSE Returned(reply.text)

\* The result object the server action resolves with; an absent field is null.
generateMermaidDiagramAction(input, reply) ==
  LET r == generateMermaidDiagramFlow(input, reply) IN
  IF ~r.threw THEN [error |-> null, mermaidDiagram |-> r.mermaidDiagram]
  ELSE IF r.isError THEN [error |-> r.message, mermaidDiagram |-> null]
  ELSE [error |-> UNKNOWN_ERROR_MESSAGE, mermaidDiagram |-> null]

\* ------------------------------------------------------------------------
\* The page: constants, inputs and state
\* ------------------------------------------------------------------------
MAX_RETRIES == 2
RETRY_DELAY_MS == 3000

INPUT_CODE_PATH == <<"i","n","p","u","t","_","c","o","d","e",".","t","x","t">>
FOLDER_UPLOADED == <<"F","o","l","d","e","r"," ","u","p","l","o","a","d","e","d",":">>
\* Faulty variant of NO_DIAGRAM_MESSAGE: the text advises to try again later.
NO_DIAGRAM_MESSAGE_TryLater == <<"A","I"," ","d","i","d"," ","n","o","t"," ","r","e","t","u","r","n"," ","a"," ","d","i","a","g","r","a","m","."," ","P","l","e","a","s","e"," ","t","r","y"," ","a","g","a","i","n"," ","l","a","t","e","r",".">>
NO_DIAGRAM_MESSAGE == <<"A","I"," ","d","i","d"," ","n","o","t"," ","r","e","t","u","r","n"," ","a"," ","d","i","a","g","r","a","m","."," ","T","r","y"," ","m","o","d","i","f","y","i","n","g"," ","y","o","u","r"," ","i","n","p","u","t"," ","o","r"," ","p","r","o","m","p","t",".">>
UNKNOWN_CAUGHT_MESSAGE == <<"A","n"," ","u","n","k","n","o","w","n"," ","e","r","r","o","r"," ","o","c","c","u","r","r","e","d",".">>
FINAL_FALLBACK_MESSAGE == <<"F","a","i","l","e","d"," ","t","o"," ","g","e","n","e","r","a","t","e"," ","d","i","a","g","r","a","m"," ","a","f","t","e","r"," ","m","u","l","t","i","p","l","e"," ","a","t","t","e","m","p","t","s","."," ","P","l","e","a","s","e"," ","t","r","y"," ","a","g","a","i","n"," ","l","a","t","e","r",".">>

\* null where a file collection is expected: a sequence that is no
\* collection (its only element has neither path nor content).
nullFiles == <<[path |-> null, content |-> null]>>

UploadedFile(path, content) == [path |-> path, content |-> content]

\* Texts typed into the code panel.
CodeTexts == { <<>>, <<" "," ">>, <<"l","e","t"," ","x"," ","="," ","1">> }

\* File collections handed over by a folder upload.
FolderUploads == {
  << UploadedFile(<<"s","r","c","/","a","p","p",".","t","s">>, <<"r","u","n","(",")">>) >>,
  << UploadedFile(<<"s","r","c","/","a","p","p",".","t","s">>, <<"r","u","n","(",")">>), UploadedFile(<<"s","r","c","/","u","t","i","l",".","t","s">>, <<"e","x","p","o","r","t">>) >> }

\* Replies of the prompt call inside the flow.
PromptReplies == {
  PromptOutput(<<"g","r","a","p","h"," ","T","D",";"," ","A","-","-",">","B">>),
  PromptOutput(<<" ","F","l","o","w","c","h","a","r","t"," ","L","R",";"," ","B","-","-",">","C">>),
  PromptOutput(<<"S","o","r","r","y",":"," ","5","0","3">>),
  PromptOutput(<<"H","e","r","e"," ","y","o","u"," ","g","o">>),
  PromptOutput(<<>>),
  PromptOutput(null),
  PromptError(<<"5","0","3"," ","S","e","r","v","i","c","e"," ","U","n","a","v","a","i","l","a","b","l","e">>),
  PromptError(<<"T","h","e"," ","m","o","d","e","l"," ","i","s"," ","O","v","e","r","l","o","a","d","e","d">>),
  PromptError(<<"P","l","e","a","s","e"," ","T","r","y"," ","A","g","a","i","n"," ","L","a","t","e","r">>),
  PromptError(<<"5","0","0"," ","I","n","t","e","r","n","a","l"," ","E","r","r","o","r">>),
  PromptError(<<>>),
  PromptNonError }

\* Messages of the Errors the call of the server action itself rejects with.
RejectMessages == { <<"H","T","T","P"," ","5","0","3">>, <<"f","e","t","c","h"," ","f","a","i","l","e","d">>, <<>> }

LoopIds == 1..MaxLoops

\* ------------------------------------------------------------------------
\* The diagram viewer: what mermaid.render hands back and the document
\* ------------------------------------------------------------------------
\* One element of a rendered svg that the selectors of the viewer match:
\* a node (g.node) or a cluster (g.cluster with its title and rectangle).
\* label is the text of its label element (null when it has none), parent
\* the matched element that encloses it in the markup (0 when none) and
\* hasShape tells whether the main-shape selector finds something in it.
GraphicElement(kind, label, parent, hasShape) ==
  [kind |-> kind, label |-> label, parent |-> parent, hasShape |-> hasShape]

\* A diagram of an uploaded folder: a group per file and nodes in and
\* around it, two of them with the same label once trimmed, one with a
\* blank label and one without a label element.
FolderGraphic == <<
  GraphicElement("cluster", <<"s","r","c","/","a","p","p",".","t","s">>, 0, TRUE),
  GraphicElement("node", <<"r","u","n">>, 1, TRUE),
  GraphicElement("node", <<" ","r","u","n"," ">>, 0, TRUE),
  GraphicElement("node", <<" "," ">>, 1, TRUE),
  GraphicElement("node", null, 0, FALSE) >>

\* What the awaited mermaid.render call does: it resolves with an svg, it
\* resolves with an svg whose bindFunctions throws, or it rejects.
RenderOutput(graphic) == [kind |-> "svg", graphic |-> graphic, message |-> null]
RenderBindThrows(graphic, message) ==
  [kind |-> "bindThrows", graphic |-> graphic, message |-> message]
RenderError(message) == [kind |-> "error", graphic |-> <<>>, message |-> message]

RenderReplies == {
  RenderOutput(FolderGraphic),
  RenderBindThrows(FolderGraphic, <<>>),
  RenderError(<<"P","a","r","s","e"," ","e","r","r","o","r"," ","o","n"," ","l","i","n","e"," ","1">>) }

RenderIds == 1..MaxRenders

\* Inputs of the runs that follow the viewer.
ViewCodeTexts == { <<"l","e","t"," ","x"," ","="," ","1">> }
ViewFolderUploads == {
  << UploadedFile(<<"s","r","c","/","a","p","p",".","t","s">>, <<"r","u","n","(",")">>), UploadedFile(<<"s","r","c","/","u","t","i","l",".","t","s">>, <<"e","x","p","o","r","t">>) >>,
  << UploadedFile(<<"s","r","c","/","a","p","p",".","t","s">>, <<"F","o","l","d","e","r"," ","u","p","l","o","a","d","e","d",":"," ","n","o","t","e","s">>) >> }
ViewPromptReplies == {
  PromptOutput(<<"g","r","a","p","h"," ","T","D",";"," ","A","-","-",">","B">>),
  PromptError(<<"5","0","3"," ","S","e","r","v","i","c","e"," ","U","n","a","v","a","i","l","a","b","l","e">>),
  PromptError(<<"5","0","0"," ","I","n","t","e","r","n","a","l"," ","E","r","r","o","r">>) }
ViewRejectMessages == { <<"f","e","t","c","h"," ","f","a","i","l","e","d">> }

\* The largest number of elements of a graphic.
MaxElements == Len(FolderGraphic)

\* The id handed to mermaid.render.
RENDER_ID == <<"m","e","r","m","a","i","d","-","d","i","a","g","r","a","m","-","s","v","g">>

\* The custom properties of the document element the viewer reads.
ThemeTokens == { "--primary", "--background", "--foreground", "--accent",
                 "--card", "--accent-foreground", "--primary-border-color" }

\* A style sheet: the text of each custom property, empty when it is not
\* set.
StyleSheet(primary, background, foreground, accent, card, accentFg, border) ==
  [token \in ThemeTokens |->
     CASE token = "--primary" -> primary
       [] token = "--background" -> background
       [] token = "--foreground" -> foreground
       [] token = "--accent" -> accent
       [] token = "--card" -> card
       [] token = "--accent-foreground" -> accentFg
       [] token = "--primary-border-color" -> border]

\* The style sheet of the application: every colour as HSL components.
ComponentsSheet ==
  StyleSheet(<<"2","7","1"," ","1","0","0","%"," ","2","5","%">>, <<"0"," ","0","%"," ","9","6","%">>, <<"0"," ","0","%"," ","4","%">>, <<"3","0","0"," ","7","6","%"," ","7","2","%">>,
             <<"0"," ","0","%"," ","1","0","0","%">>, <<"0"," ","0","%"," ","4","%">>, <<>>)

\* Style sheets live style changes can bring: direct colours next to
\* components and unset properties, and values padded with blanks.
ThemeSheets == {
  ComponentsSheet,
  StyleSheet(<<"h","s","l","(","2","7","1",","," ","1","0","0","%",","," ","2","5","%",")">>, <<" ","0"," ","0","%"," ","9","6","%"," ">>, <<>>, <<"#","E","E","8","2","E","E">>,
             <<"r","g","b","(","2","5","5",","," ","2","5","5",","," ","2","5","5",")">>, <<"#","0","A","0","A","0","A">>, <<"#","4","B","0","0","8","2">>),
  StyleSheet(<<" "," ">>, <<>>, <<" ","#","0","A","0","A","0","A">>, <<>>, <<"H","S","L","(","0",","," ","0","%",","," ","1","0","0","%",")">>, <<>>, <<>>) }

\* getComputedStyle(document.documentElement).getPropertyValue(name)
getPropertyValue(sheet, name) == sheet[name]

\* No theme has been handed to the library.
NoTheme == [configured |-> FALSE]

\* No restyle pass has run over the svg behind the ref.
NoColors == [styled |-> FALSE]

\* ------------------------------------------------------------------------
\* The editor: single-file uploads
\* ------------------------------------------------------------------------
MAX_FILE_SIZE_BYTES == 1 * 1024 * 1024

IGNORED_EXTENSIONS == {
  <<".","l","o","g">>, <<".","l","o","c","k">>, <<".","D","S","_","S","t","o","r","e">>, <<".","e","n","v">>, <<".","s","v","g">>, <<".","p","n","g">>, <<".","j","p","g">>,
  <<".","j","p","e","g">>, <<".","g","i","f">>, <<".","w","e","b","p">>, <<".","i","c","o">>, <<".","z","i","p">>, <<".","t","a","r">>, <<".","g","z">>, <<".","p","d","f">>,
  <<".","d","o","c">>, <<".","d","o","c","x">>, <<".","x","l","s">>, <<".","x","l","s","x">>, <<".","p","p","t">>, <<".","p","p","t","x">>, <<".","e","x","e">>, <<".","d","l","l">>,
  <<".","s","o">>, <<".","c","l","a","s","s">>, <<".","p","y","c">> }

\* A File of a file input: readable tells whether the FileReader loads it,
\* error is the message of reader.error (null without one).
File(name, type, size, text, readable, error) ==
  [name |-> name, type |-> type, size |-> size, text |-> text,
   readable |-> readable, error |-> error]

\* Files the user picks with Upload File.
SelectedFiles == {
  File(<<"a","p","p",".","t","s">>, <<>>, 5, <<"r","u","n","(",")">>, TRUE, null),
  File(<<"B","u","i","l","d",".","L","O","G">>, <<"t","e","x","t","/","p","l","a","i","n">>, 2, <<"o","k">>, TRUE, null),
  File(<<"l","o","g","o",".","b","m","p">>, <<"i","m","a","g","e","/","b","m","p">>, 9, <<"B","M">>, TRUE, null),
  File(<<"b","i","g",".","t","s">>, <<>>, 2 * 1024 * 1024, <<"r","u","n","(",")">>, TRUE, null),
  File(<<"g","o","n","e",".","t","s">>, <<>>, 5, null, FALSE, <<"N","o","t","R","e","a","d","a","b","l","e","E","r","r","o","r">>),
  File(<<"l","o","s","t",".","t","s">>, <<>>, 5, null, FALSE, null) }

\* No read of a single-file upload is under way.
NoFileRead == [pending |-> FALSE]

\* The element behind diagramContainerRef: absent from the document, empty,
\* holding the svg of a render, or holding the error paragraph.
NoContainer == [kind |-> "unmounted", render |-> 0]
EmptyContainer == [kind |-> "empty", render |-> 0]
ErrorParagraph == [kind |-> "error", render |-> 0]
SvgOf(g) == [kind |-> "svg", render |-> g]

\* No mermaid.render call has been seen to settle.
NothingSettled == [kind |-> "none", stale |-> FALSE]

\* No click handler is kept by anybody.
NoHandler == [render |-> 0, element |-> 0, called |-> FALSE]

VARIABLES
  code,                 \* useState code
  uploadedFolderFiles,  \* useState uploadedFolderFiles
  mermaidSyntax,        \* useState mermaidSyntax
  isLoading,            \* useState isLoading
  error,                \* useState error
  highlightedNodeText,  \* useState highlightedNodeText
  loops,                \* the activations of handleGenerateDiagram
  lastToast,            \* the toast shown last
  pageMounted,          \* the page and its viewer are mounted
  mermaidInitialized,   \* useState mermaidInitialized of the viewer
  isDiagramLoaded,      \* useState isDiagramLoaded of the viewer
  internalError,        \* useState internalError of the viewer
  mermaidSvgElementRef, \* useRef of the page: the render whose svg it holds
  container,            \* the element behind diagramContainerRef
  effectRender,         \* the render started by the installed render effect
  renders,              \* the closures of renderFn and the svg each produced
  retained,             \* the click handler somebody kept a reference to
  lastSettled,          \* the mermaid.render call an onlooker saw settle last
  themeTokens,          \* the custom properties of the document element
  themeVariables,       \* the themeVariables mermaid.initialize was given
  highlightColors,      \* the colours of the restyle pass over the svg behind the ref
  fileRead              \* the single-file upload whose read has not settled

viewVars == << pageMounted, mermaidInitialized, isDiagramLoaded, internalError,
               mermaidSvgElementRef, container, effectRender, renders,
               retained, lastSettled, themeTokens, themeVariables,
               highlightColors >>

vars == << code, uploadedFolderFiles, mermaidSyntax, isLoading, error,
           highlightedNodeText, loops, lastToast, pageMounted,
           mermaidInitialized, isDiagramLoaded, internalError,
           mermaidSvgElementRef, container, effectRender, renders, retained,
           lastSettled, themeTokens, themeVariables, highlightColors,
           fileRead >>

\* A toast; the numbers are the ones interpolated into its texts.
Toast(title, attempt, nextAttempt, total, seconds, description, variant) ==
  [title |-> title, attempt |-> attempt, nextAttempt |-> nextAttempt,
   total |-> total, seconds |-> seconds, description |-> description,
   variant |-> variant]

NoToast == Toast("", 0, 0, 0, 0, null, "")
InputRequiredToast == Toast("Input Required", 0, 0, 0, 0, null, "destructive")
DiagramGeneratedToast == Toast("Diagram Generated", 0, 0, 0, 0, null, "default")
GenerationFailedToast(message) ==
  Toast("Generation Failed", 0, 0, 0, 0, message, "destructive")

\* Faulty variant of ProgressToast: the toast is built before attempts is incremented.
ProgressToast_BeforeIncrement(title, attempts) ==
  Toast(title, attempts - 1, attempts, MAX_RETRIES + 1,
        RETRY_DELAY_MS \div 1000, null, "default")

\* `Attempt ${attempts} Failed (...)`, `Retrying in ${RETRY_DELAY_MS / 1000}s...
\* (Attempt ${attempts + 1}/${MAX_RETRIES + 1})`
ProgressToast(title, attempts) ==
  Toast(title, attempts, attempts + 1, MAX_RETRIES + 1,
        RETRY_DELAY_MS \div 1000, null, "default")

\* The locals of one activation of handleGenerateDiagram and where it is
\* suspended. calls, delays, progress and history record what it has done.
IdleLoop ==
  [pc |-> "Idle", input |-> nullFiles, attempts |-> 0,
   operationSuccessful |-> FALSE, lastError |-> null, timer |-> 0,
   calls |-> 0, delays |-> 0, progress |-> <<>>, history |-> <<>>]

Active(l) == l.pc \in {"Attempting", "Delaying"}

Init ==
  /\ code = <<>>
  /\ uploadedFolderFiles = nullFiles
  /\ mermaidSyntax = null
  /\ isLoading = FALSE
  /\ error = null
  /\ highlightedNodeText = null
  /\ loops = [i \in LoopIds |-> IdleLoop]
  /\ lastToast = NoToast
  /\ pageMounted = TRUE
  /\ mermaidInitialized = FALSE
  /\ isDiagramLoaded = FALSE
  /\ internalError = null
  /\ mermaidSvgElementRef = 0
  /\ container = NoContainer
  /\ effectRender = 0
  /\ renders = <<>>
  /\ retained = NoHandler
  /\ lastSettled = NothingSettled
  /\ themeTokens = ComponentsSheet
  /\ themeVariables = NoTheme
  /\ highlightColors = NoColors
  /\ fileRead = NoFileRead

\* ------------------------------------------------------------------------
\* Input handlers of the page and the Generate button of the editor
\* ------------------------------------------------------------------------
RECURSIVE joinPaths(_)
\* files.map(f => `- ${f.path}`).join('\n')
joinPaths(files) ==
  IF Len(files) = 0 THEN <<>>
  ELSE IF Len(files) = 1 THEN <<"-"," ">> \o files[1].path
  ELSE <<"-"," ">> \o files[1].path \o <<"\n">> \o joinPaths(Tail(files))

FolderSummary(files) ==
  FOLDER_UPLOADED \o <<" ">> \o numberToString(Len(files)) \o <<" ","f","i","l","e">>
    \o (IF Len(files) > 1 THEN <<"s">> ELSE <<>>)
    \o <<" ","r","e","a","d","y"," ","f","o","r"," ","a","n","a","l","y","s","i","s",".","\n","\n">>
    \o joinPaths(SubSeq(files, 1, Min(5, Len(files))))
    \o (IF Len(files) > 5 THEN <<"\n",".",".",".">> ELSE <<>>)

handleFolderSelect(files) ==
  /\ uploadedFolderFiles' = files
  /\ code' = IF files # nullFiles /\ Len(files) > 0 THEN FolderSummary(files)
             ELSE IF startsWith(code, FOLDER_UPLOADED) THEN <<>>
             ELSE code
  /\ UNCHANGED << mermaidSyntax, isLoading, error, highlightedNodeText,
                  loops, lastToast >>
  /\ UNCHANGED << viewVars, fileRead >>

\* The prop the page hands to the editor: a folder collection is loaded.
isFolderUploaded ==
  uploadedFolderFiles # nullFiles /\ Len(uploadedFolderFiles) > 0

isAnalyzingFolder == isFolderUploaded /\ startsWith(code, FOLDER_UPLOADED)
isAnalyzingSinglePastedFile ==
  ~isFolderUploaded /\ trim(code) # <<>> /\ ~startsWith(code, FOLDER_UPLOADED)
isDisplayingSelectedFile == isFolderUploaded /\ ~startsWith(code, FOLDER_UPLOADED)

\* Faulty variant of handleCodeChange: the collection survives the edit.
handleCodeChange_KeepsFolder(newCode) ==
  /\ code' = newCode
  /\ UNCHANGED << uploadedFolderFiles, mermaidSyntax, isLoading, error,
                  highlightedNodeText, loops, lastToast >>
  /\ UNCHANGED << viewVars, fileRead >>

handleCodeChange(newCode) ==
  /\ code' = newCode
  /\ uploadedFolderFiles' =
       IF uploadedFolderFiles # nullFiles THEN nullFiles ELSE uploadedFolderFiles
  /\ UNCHANGED << mermaidSyntax, isLoading, error, highlightedNodeText,
                  loops, lastToast >>
  /\ UNCHANGED << viewVars, fileRead >>

\* The user edits the text area, which is read-only while a selected file
\* is displayed.
TypeCode(newCode) == ~isDisplayingSelectedFile /\ handleCodeChange(newCode)

\* Faulty variant of GenerateDisabled: the busy flag is not consulted.
GenerateDisabled_IgnoresLoading ==
  \/ (~truthy(trim(code)) /\ ~isFolderUploaded)
  \/ (truthy(trim(code)) /\ ~isAnalyzingFolder
        /\ ~isAnalyzingSinglePastedFile /\ ~isDisplayingSelectedFile)

\* The disabled attribute of the Generate button.
GenerateDisabled ==
  \/ isLoading
  \/ (~truthy(trim(code)) /\ ~isFolderUploaded)
  \/ (truthy(trim(code)) /\ ~isAnalyzingFolder
        /\ ~isAnalyzingSinglePastedFile /\ ~isDisplayingSelectedFile)

\* ------------------------------------------------------------------------
\* The diagram viewer
\* ------------------------------------------------------------------------
\* const displayError = error || internalError
displayError(err, internalErr) == orElse(err, internalErr)

\* The condition under which the returned markup holds the container.
ContainerRendered(loading, err, internalErr, syntax) ==
  ~loading /\ ~truthy(displayError(err, internalErr)) /\ truthy(syntax)

\* textContent?.trim() || null of the label element; null without one.
nodeTextContent(label) ==
  IF label = null THEN null ELSE orElse(trim(label), null)

\* The state the effects of the viewer read and write, threaded through
\* the effects that run after one commit.
ViewNow ==
  [renders |-> renders, container |-> container,
   ref |-> mermaidSvgElementRef, loaded |-> isDiagramLoaded,
   ierr |-> internalError, effect |-> effectRender, kept |-> retained,
   colors |-> highlightColors]

\* An svg that is neither in the document nor behind the ref can no longer
\* be seen or styled: of its elements only the listeners are followed.
Discarded(v, g) ==
  v.renders[g].pc = "done" /\ v.container # SvgOf(g) /\ v.ref # g

Forgotten(el) == [el EXCEPT !.shape = "library", !.text = "library"]

\* A closure nothing can reach any more: its render has settled, the
\* cleanup of its effect has run, its svg is neither in the document nor
\* behind the ref, and nobody kept one of its handlers.
Garbage(v, g) ==
  /\ v.renders[g].pc = "done"
  /\ ~v.renders[g].isMounted
  /\ v.effect # g /\ v.ref # g /\ v.container.render # g /\ v.kept.render # g

Shift(x, g) == IF x > g THEN x - 1 ELSE x

RemoveRender(v, g) ==
  [v EXCEPT !.renders = SubSeq(@, 1, g - 1) \o SubSeq(@, g + 1, Len(@)),
            !.effect = Shift(@, g), !.ref = Shift(@, g),
            !.container.render = Shift(@, g), !.kept.render = Shift(@, g)]

\* The closures that can still act, in the order of their creation.
RECURSIVE Collected(_)
Collected(v) ==
  IF \E g \in 1..Len(v.renders) : Garbage(v, g)
  THEN Collected(RemoveRender(v,
         CHOOSE g \in 1..Len(v.renders) :
           /\ Garbage(v, g)
           /\ \A h \in 1..Len(v.renders) : Garbage(v, h) => g <= h))
  ELSE v

SetView(w) ==
  \E v \in {Collected(w)} :
  /\ renders' = [g \in 1..Len(v.renders) |->
       IF Discarded(v, g)
       THEN [v.renders[g] EXCEPT !.elements =
              [k \in DOMAIN @ |-> Forgotten(@[k])]]
       ELSE v.renders[g]]
  /\ container' = v.container
  /\ mermaidSvgElementRef' = v.ref
  /\ isDiagramLoaded' = v.loaded
  /\ internalError' = v.ierr
  /\ effectRender' = v.effect
  /\ retained' = v.kept
  /\ highlightColors' = IF v.ref = 0 THEN NoColors ELSE v.colors

\* An element as innerHTML = svg creates it: styled by the library, without
\* listener.
SvgElement(e) ==
  [kind |-> e.kind, label |-> e.label, parent |-> e.parent,
   hasShape |-> e.hasShape, shape |-> "library", text |-> "library",
   cursor |-> "auto", listeners |-> 0, hasClickHandler |-> FALSE]

SvgElements(graphic) == [k \in DOMAIN graphic |-> SvgElement(graphic[k])]

\* Faulty variant of IsInteractive: every element with a label element counts.
IsInteractive_AnyLabel(text) == TRUE

\* if (nodeTextContent): the element gets a click handler.
IsInteractive(text) == truthy(text)

\* The body of interactiveElements.forEach for one element.
attachClickHandler(el) ==
  IF el.label # null /\ IsInteractive(nodeTextContent(el.label))
  THEN [el EXCEPT !.cursor = "pointer",
                  !.listeners = (IF el.hasClickHandler THEN @ - 1 ELSE @) + 1,
                  !.hasClickHandler = TRUE]
  ELSE el

\* The body of the forEach of the cleanup function for one element.
removeClickHandler(el) ==
  IF el.hasClickHandler
  THEN [el EXCEPT !.listeners = @ - 1, !.hasClickHandler = FALSE]
  ELSE el

\* Faulty variant of clickHandler: isMounted is not consulted.
clickHandler_IgnoresMounted(isMounted, text, current) == text

\* The click handler of one element, as the value highlightedNodeText has
\* after it ran: if (isMounted) setHighlightedNodeText(nodeTextContent).
clickHandler(isMounted, text, current) ==
  IF isMounted THEN text ELSE current

\* Faulty variant of StopsPropagation: the event bubbles on.
StopsPropagation_Bubbles == FALSE

\* event.stopPropagation() in the click handler.
StopsPropagation == TRUE

RECURSIVE Repeat(_, _)
Repeat(x, n) == IF n = 0 THEN <<>> ELSE <<x>> \o Repeat(x, n - 1)

\* The elements whose click listeners run, in order, when a click on
\* element k bubbles through the svg.
RECURSIVE Dispatch(_, _)
Dispatch(els, k) ==
  IF k = 0 THEN <<>>
  ELSE IF els[k].listeners > 0
    THEN Repeat(k, els[k].listeners)
           \o (IF StopsPropagation THEN <<>> ELSE Dispatch(els, els[k].parent))
  ELSE Dispatch(els, els[k].parent)

\* highlightedNodeText after the listeners in fired ran one after another.
RECURSIVE RunHandlers(_, _, _, _)
RunHandlers(els, isMounted, fired, current) ==
  IF fired = <<>> THEN current
  ELSE RunHandlers(els, isMounted, Tail(fired),
         clickHandler(isMounted, nodeTextContent(els[Head(fired)].label), current))

\* nodeTextContent && nodeTextContent === highlightedNodeText
isHighlighted(text, highlighted) == truthy(text) /\ text = highlighted

\* Faulty variant of ShapeStyle: a shape that does not match keeps its style.
ShapeStyle_KeepsOld(matches, previous) ==
  IF matches THEN "emphasis" ELSE previous

\* fill, stroke and strokeWidth of the main shape: accent fill, primary
\* stroke and 3px, or the default fill, default stroke and 1px.
ShapeStyle(matches, previous) == IF matches THEN "emphasis" ELSE "default"

\* fill of the text elements: accent foreground, or ''.
TextStyle(matches) == IF matches THEN "emphasis" ELSE "default"

\* The body of allElements.forEach of the restyle effect for one element.
restyleElement(el, highlighted) ==
  LET matches == isHighlighted(nodeTextContent(el.label), highlighted) IN
  [el EXCEPT !.shape = IF el.hasShape THEN ShapeStyle(matches, @) ELSE @,
             !.text = TextStyle(matches)]

\* `hsl(${value})`
hsl(value) == <<"h","s","l","(">> \o value \o <<")">>

\* The colours the restyle effect computes before it visits the elements:
\* the emphasis fill, stroke and text fill, and the default stroke and fill.
passColors(sheet) ==
  LET resolvedAccentColor == trim(getPropertyValue(sheet, "--accent"))
      resolvedPrimaryColor == trim(getPropertyValue(sheet, "--primary"))
      resolvedAccentFgColor == trim(getPropertyValue(sheet, "--accent-foreground"))
  IN [styled |-> TRUE,
      fill |-> hsl(resolvedAccentColor),
      stroke |-> hsl(resolvedPrimaryColor),
      textFill |-> hsl(resolvedAccentFgColor),
      defaultNodeStroke |->
        orElse(getPropertyValue(sheet, "--primary-border-color"),
               hsl(resolvedPrimaryColor)),
      defaultNodeFill |->
        orElse(getPropertyValue(sheet, "--background"), <<"t","r","a","n","s","p","a","r","e","n","t">>)]

\* Faulty variant of restyleEffect: the effect does not run.
restyleEffect_Skipped(v, highlighted) == v

\* The restyle effect: every element of the svg behind the ref is styled.
restyleEffect(v, highlighted) ==
  IF v.ref # 0 /\ mermaidInitialized'
  THEN [v EXCEPT !.renders[v.ref].elements =
                   [k \in DOMAIN @ |-> restyleElement(@[k], highlighted)],
                 !.colors = passColors(themeTokens')]
  ELSE v

\* The cleanup function of the render effect.
cleanup(v) ==
  LET stopped ==
        IF v.effect = 0 THEN v.renders
        ELSE [v.renders EXCEPT ![v.effect].isMounted = FALSE]
  IN IF v.container.kind = "svg"
     THEN [v EXCEPT !.effect = 0,
            !.renders = [stopped EXCEPT ![v.container.render].elements =
                          [k \in DOMAIN @ |-> removeClickHandler(@[k])]]]
     ELSE [v EXCEPT !.effect = 0, !.renders = stopped]

\* The closure of a renderFn call that has reached its await.
NewRender ==
  [pc |-> "rendering", isMounted |-> TRUE, elements |-> <<>>, id |-> RENDER_ID]

\* renderFn up to its await, for the document text syntax.
renderFn(v, syntax) ==
  IF v.container.kind = "unmounted" /\ truthy(syntax) THEN v
  ELSE IF ~truthy(syntax)
    THEN [v EXCEPT !.container =
                     IF @.kind = "unmounted" THEN @ ELSE EmptyContainer,
                   !.ref = 0, !.loaded = FALSE]
  ELSE [v EXCEPT !.loaded = FALSE, !.ref = 0, !.container = EmptyContainer,
                 !.effect = Len(v.renders) + 1,
                 !.renders = Append(@, NewRender)]

\* Faulty variant of HandleWithoutDocument: the handle is left as it was.
HandleWithoutDocument_Kept(ref) == ref

\* setMermaidSvgElement(null) of the render effect when there is no
\* document text.
HandleWithoutDocument(ref) == 0

\* The render effect, run for the document text syntax after the cleanup
\* of the effect installed before.
renderEffect(v, syntax) ==
  IF ~mermaidInitialized' THEN v
  ELSE LET cleared == [v EXCEPT !.ierr = null] IN
       IF truthy(syntax) THEN renderFn(cleared, syntax)
       ELSE [cleared EXCEPT !.container =
                              IF @.kind = "unmounted" THEN @ ELSE EmptyContainer,
                            !.ref = HandleWithoutDocument(@), !.loaded = FALSE]

\* The container after the viewer has rendered with the state in v: a
\* container that enters the document is a new, empty element.
Rerendered(v) ==
  IF pageMounted'
       /\ ContainerRendered(isLoading', error', v.ierr, mermaidSyntax')
  THEN IF v.container.kind = "unmounted"
       THEN [v EXCEPT !.container = EmptyContainer] ELSE v
  ELSE [v EXCEPT !.container = NoContainer]

\* What the viewer does when the page has rendered with new state: the
\* commit, then the render effect when mermaidSyntax (or initialized) has
\* changed, then the restyle effect when highlightedNodeText (or
\* initialized) has changed, then the rendering these cause.
ViewerEffects(view) ==
  LET initChanged == mermaidInitialized' # mermaidInitialized
      syntaxChanged == mermaidSyntax' # mermaidSyntax \/ initChanged
      highlightChanged ==
        highlightedNodeText' # highlightedNodeText \/ initChanged
  IN \E committed \in {Rerendered(view)} :
     \E cleaned \in {Collected(cleanup(committed))} :
     \E rendered \in {IF syntaxChanged
                       THEN renderEffect(cleaned, mermaidSyntax')
                       ELSE committed} :
     \E restyled \in {IF highlightChanged
                       THEN restyleEffect(rendered, highlightedNodeText')
                       ELSE rendered} :
       /\ (syntaxChanged /\ truthy(mermaidSyntax') /\ mermaidInitialized'
             /\ committed.container.kind # "unmounted")
            => Len(cleaned.renders) < MaxRenders
       /\ SetView(Rerendered(restyled))

MermaidViewerEffects == ViewerEffects(ViewNow)

\* Faulty variant of getResolvedColor: every value is wrapped.
getResolvedColor_AlwaysWraps(sheet, variableName, fallback) ==
  hsl(trim(getPropertyValue(sheet, variableName)))

\* getResolvedColor of the initialisation effect, in a window.
getResolvedColor(sheet, variableName, fallback) ==
  LET value == trim(getPropertyValue(sheet, variableName)) IN
  IF truthy(value)
  THEN IF \/ startsWith(value, <<"h","s","l","(">>)
          \/ startsWith(value, <<"r","g","b","(">>)
          \/ startsWith(value, <<"#">>)
       THEN value
       ELSE hsl(value)
  ELSE fallback

\* The themeVariables of mermaid.initialize.
ThemeVariables(sheet) ==
  LET primaryColor == getResolvedColor(sheet, "--primary", <<"#","4","B","0","0","8","2">>)
      backgroundColor == getResolvedColor(sheet, "--background", <<"#","F","5","F","5","F","5">>)
      foregroundColor == getResolvedColor(sheet, "--foreground", <<"#","0","A","0","A","0","A">>)
      accentColor == getResolvedColor(sheet, "--accent", <<"#","E","E","8","2","E","E">>)
      cardColor == getResolvedColor(sheet, "--card", <<"#","F","F","F","F","F","F">>)
      primaryBorderColor == primaryColor
      lineColor == primaryColor
  IN [configured |-> TRUE,
      primaryColor |-> backgroundColor,
      primaryTextColor |-> foregroundColor,
      primaryBorderColor |-> primaryBorderColor,
      lineColor |-> lineColor,
      secondaryColor |-> accentColor,
      tertiaryColor |-> cardColor,
      background |-> backgroundColor,
      mainBkg |-> accentColor,
      textColor |-> foregroundColor,
      nodeBorder |-> primaryBorderColor,
      clusterBkg |-> getResolvedColor(sheet, "--card", <<"#","F","F","F","F","F","F">>),
      clusterBorder |-> primaryBorderColor,
      defaultLinkColor |-> lineColor,
      titleColor |-> foregroundColor,
      edgeLabelBackground |-> backgroundColor]

\* Faulty variant of AlreadyInitialized: the flag is not consulted.
AlreadyInitialized_Never(initialized) == FALSE

\* if (mermaidInitialized) return
AlreadyInitialized(initialized) == initialized

\* The initialisation effect: mermaid.initialize and setMermaidInitialized.
initializeMermaid ==
  /\ pageMounted
  /\ ~AlreadyInitialized(mermaidInitialized)
  /\ mermaidInitialized' = TRUE
  /\ themeVariables' = ThemeVariables(themeTokens)
  /\ UNCHANGED fileRead
  /\ UNCHANGED << code, uploadedFolderFiles, mermaidSyntax, isLoading, error,
                  highlightedNodeText, loops, lastToast, pageMounted,
                  lastSettled, themeTokens >>
  /\ MermaidViewerEffects

\* Faulty variant of RenderErrorMessage: the message of the Error is dropped.
RenderErrorMessage_Generic(message) ==
  <<"M","e","r","m","a","i","d","L","i","b"," ","E","r","r","o","r",":"," ">> \o <<"U","n","k","n","o","w","n"," ","M","e","r","m","a","i","d"," ","r","e","n","d","e","r","i","n","g"," ","e","r","r","o","r">>

\* `MermaidLib Error: ${e.message || 'Unknown Mermaid rendering error'}`
RenderErrorMessage(message) ==
  <<"M","e","r","m","a","i","d","L","i","b"," ","E","r","r","o","r",":"," ">> \o orElse(message, <<"U","n","k","n","o","w","n"," ","M","e","r","m","a","i","d"," ","r","e","n","d","e","r","i","n","g"," ","e","r","r","o","r">>)

\* Faulty variant of StaleOnReturn: a completion is never discarded.
StaleOnReturn_Never(isMounted, containerPresent) == FALSE

\* if (!isMounted || !diagramContainerRef.current) return
StaleOnReturn(isMounted, containerPresent) == ~isMounted \/ ~containerPresent

\* Faulty variant of LiveOnCatch: the catch block does not look at isMounted.
LiveOnCatch_Always(isMounted) == TRUE

\* if (isMounted) in the catch block.
LiveOnCatch(isMounted) == isMounted

\* The catch block of renderFn of render g for a caught Error.
renderCatch(v, g, message) ==
  IF LiveOnCatch(v.renders[g].isMounted)
  THEN [v EXCEPT !.ierr = RenderErrorMessage(message), !.ref = 0,
                 !.loaded = FALSE,
                 !.container =
                   IF @.kind = "unmounted" THEN @ ELSE ErrorParagraph,
                 !.renders[g] = [@ EXCEPT !.pc = "done", !.elements = <<>>]]
  ELSE [v EXCEPT !.renders[g] = [@ EXCEPT !.pc = "done"]]

\* renderFn of render g after its await: mermaid.render has settled.
renderSettled(v, g, reply) ==
  IF reply.kind = "error" THEN renderCatch(v, g, reply.message)
  ELSE IF StaleOnReturn(v.renders[g].isMounted,
                        v.container.kind # "unmounted")
    THEN [v EXCEPT !.renders[g] = [@ EXCEPT !.pc = "done"]]
  ELSE IF v.container.kind = "unmounted"
    THEN renderCatch(v, g, <<"C","a","n","n","o","t"," ","s","e","t"," ","p","r","o","p","e","r","t","i","e","s"," ","o","f"," ","n","u","l","l">>)
  ELSE LET written == [v EXCEPT !.container = SvgOf(g)] IN
       IF reply.kind = "bindThrows"
       THEN renderCatch(written, g, reply.message)
       ELSE [written EXCEPT
              !.ref = IF v.renders[g].isMounted THEN g ELSE @,
              !.loaded = IF v.renders[g].isMounted THEN TRUE ELSE @,
              !.renders[g] =
                [@ EXCEPT !.pc = "done",
                          !.elements =
                            [k \in DOMAIN reply.graphic |->
                              attachClickHandler(SvgElement(reply.graphic[k]))]]]

\* The awaited mermaid.render call of render g settles and renderFn runs
\* to its end.
RenderSettles(g, reply) ==
  /\ g \in DOMAIN renders
  /\ renders[g].pc = "rendering"
  /\ UNCHANGED fileRead
  /\ UNCHANGED << code, uploadedFolderFiles, mermaidSyntax, isLoading, error,
                  highlightedNodeText, loops, lastToast, pageMounted,
                  mermaidInitialized, themeTokens, themeVariables >>
  /\ \E settled \in {renderSettled(ViewNow, g, reply)} :
       SetView(Rerendered(settled))

RenderCompletes(g, reply) == RenderSettles(g, reply) /\ UNCHANGED lastSettled

\* The same step with an onlooker who notes which call settled: with what,
\* and whether the cleanup of its effect had run before.
ObservedRenderCompletes(g, reply) ==
  /\ RenderSettles(g, reply)
  /\ lastSettled' = [kind |-> reply.kind, stale |-> ~renders[g].isMounted]

\* The file of the collection whose path is the selected text, if any.
SelectedFile(files, text) ==
  IF files = nullFiles THEN 0
  ELSE IF \E k \in 1..Len(files) : files[k].path = text
    THEN CHOOSE k \in 1..Len(files) : files[k].path = text
  ELSE 0

\* The code panel after the selection has become text: the content of the
\* uploaded file with that path, or what it showed before.
redirectCodePanel(files, text, current) ==
  IF SelectedFile(files, text) # 0
  THEN files[SelectedFile(files, text)].content
  ELSE current

\* The page renders with the selection the click handlers have written.
Highlighted(text) ==
  /\ highlightedNodeText' = text
  /\ code' = IF text # highlightedNodeText
             THEN redirectCodePanel(uploadedFolderFiles, text, code)
             ELSE code
  /\ UNCHANGED fileRead
  /\ UNCHANGED << uploadedFolderFiles, mermaidSyntax, isLoading, error, loops,
                  lastToast, pageMounted, mermaidInitialized, lastSettled,
                  themeTokens, themeVariables >>
  /\ MermaidViewerEffects

\* The user clicks on element k of the svg on display.
ClickElement(k) ==
  /\ container.kind = "svg"
  /\ isDiagramLoaded /\ mermaidInitialized
  /\ k \in DOMAIN renders[container.render].elements
  /\ LET r == renders[container.render]
         fired == Dispatch(r.elements, k)
     IN /\ fired # <<>>
        /\ Highlighted(RunHandlers(r.elements, r.isMounted, fired,
                                   highlightedNodeText))

\* Somebody keeps a reference to the click handler of element k of the svg
\* on display, dropping the one kept before.
RetainHandler(k) ==
  /\ container.kind = "svg"
  /\ k \in DOMAIN renders[container.render].elements
  /\ renders[container.render].elements[k].hasClickHandler
  /\ retained.render # container.render
  /\ UNCHANGED fileRead
  /\ UNCHANGED << code, uploadedFolderFiles, mermaidSyntax, isLoading, error,
                  highlightedNodeText, loops, lastToast, pageMounted,
                  mermaidInitialized, lastSettled, themeTokens,
                  themeVariables >>
  /\ SetView([ViewNow EXCEPT !.kept =
       [render |-> container.render, element |-> k, called |-> FALSE]])

\* The click handler somebody kept is called after its svg has left the
\* document.
InvokeRetainedHandler ==
  /\ retained.render # 0
  /\ ~retained.called
  /\ container.render # retained.render
  /\ LET r == renders[retained.render] IN
     /\ highlightedNodeText' =
          clickHandler(r.isMounted,
                       nodeTextContent(r.elements[retained.element].label),
                       highlightedNodeText)
     /\ code' = IF highlightedNodeText' # highlightedNodeText
                THEN redirectCodePanel(uploadedFolderFiles,
                                       highlightedNodeText', code)
                ELSE code
  /\ UNCHANGED fileRead
  /\ UNCHANGED << uploadedFolderFiles, mermaidSyntax, isLoading, error, loops,
                  lastToast, pageMounted, mermaidInitialized, lastSettled,
                  themeTokens, themeVariables >>
  /\ ViewerEffects([ViewNow EXCEPT !.kept.called = TRUE])

\* The page is closed: its markup leaves the document, the cleanup
\* function of the render effect runs and the state of the page and of the
\* viewer is dropped. Activations of handleGenerateDiagram are not followed
\* any further; the renders in flight and the click handlers are.
Unmount ==
  /\ pageMounted
  /\ pageMounted' = FALSE
  /\ code' = <<>>
  /\ uploadedFolderFiles' = nullFiles
  /\ mermaidSyntax' = null
  /\ isLoading' = FALSE
  /\ error' = null
  /\ highlightedNodeText' = null
  /\ loops' = [i \in LoopIds |-> IdleLoop]
  /\ lastToast' = NoToast
  /\ mermaidInitialized' = FALSE
  /\ themeVariables' = NoTheme
  /\ fileRead' = NoFileRead
  /\ UNCHANGED << lastSettled, themeTokens >>
  /\ SetView([cleanup([ViewNow EXCEPT !.container = NoContainer])
               EXCEPT !.ref = 0, !.loaded = FALSE, !.ierr = null])


\* The style of the document changes while the page is on display.
StyleChanges(sheet) ==
  /\ pageMounted
  /\ themeTokens' = sheet
  /\ themeTokens' # themeTokens
  /\ UNCHANGED fileRead
  /\ UNCHANGED << code, uploadedFolderFiles, mermaidSyntax, isLoading, error,
                  highlightedNodeText, loops, lastToast, pageMounted,
                  mermaidInitialized, isDiagramLoaded, internalError,
                  mermaidSvgElementRef, container, effectRender, renders,
                  retained, lastSettled, themeVariables, highlightColors >>

\* ------------------------------------------------------------------------
\* handleFiles of the editor for a single file
\* ------------------------------------------------------------------------
\* s.endsWith(suffix)
endsWith(s, suffix) ==
  /\ Len(suffix) <= Len(s)
  /\ SubSeq(s, Len(s) - Len(suffix) + 1, Len(s)) = suffix

\* How the promise of readFileAsText(file) settles: resolved with a value
\* or rejected with the message of an Error.
readFileAsText(file) ==
  LET skipped(why) ==
        [kind |-> "resolved", value |-> <<"/","/"," ","F","i","l","e"," ","c","o","n","t","e","n","t"," ","s","k","i","p","p","e","d",":"," ">> \o why]
  IN
  IF file.size > MAX_FILE_SIZE_BYTES
  THEN skipped(<<"E","x","c","e","e","d","s"," ","s","i","z","e"," ","l","i","m","i","t"," ","o","f"," ">>
         \o numberToString(MAX_FILE_SIZE_BYTES \div (1024 * 1024)) \o <<"M","B",".">>)
  ELSE IF \E ext \in IGNORED_EXTENSIONS : endsWith(toLowerCase(file.name), ext)
    THEN skipped(<<"I","g","n","o","r","e","d"," ","f","i","l","e"," ","t","y","p","e"," ","(">> \o file.name \o <<")",".">>)
  ELSE IF /\ truthy(file.type)
          /\ ~(\/ startsWith(file.type, <<"t","e","x","t","/">>)
               \/ file.type \in { <<"a","p","p","l","i","c","a","t","i","o","n","/","j","s","o","n">>, <<"a","p","p","l","i","c","a","t","i","o","n","/","j","a","v","a","s","c","r","i","p","t">>,
                                  <<"a","p","p","l","i","c","a","t","i","o","n","/","x","m","l">>, <<"a","p","p","l","i","c","a","t","i","o","n","/","t","y","p","e","s","c","r","i","p","t">> }
               \/ endsWith(file.name, <<".","m","d">>))
          /\ file.type # <<"a","p","p","l","i","c","a","t","i","o","n","/","o","c","t","e","t","-","s","t","r","e","a","m">>
    THEN skipped(<<"L","i","k","e","l","y"," ","b","i","n","a","r","y"," ","o","r"," ","n","o","n","-","t","e","x","t"," ","f","i","l","e"," ","t","y","p","e"," ","(">> \o file.type \o <<")",".">>)
  ELSE IF file.readable THEN [kind |-> "resolved", value |-> file.text]
  ELSE [kind |-> "rejected",
        message |-> orElse(file.error, <<"U","n","k","n","o","w","n"," ","F","i","l","e","R","e","a","d","e","r"," ","e","r","r","o","r">>)]

FileTooLargeToast ==
  Toast("File Upload", 0, 0, 0, 0,
        <<"F","i","l","e"," ","i","s"," ","t","o","o"," ","l","a","r","g","e"," ","(","m","a","x"," ">>
          \o numberToString(MAX_FILE_SIZE_BYTES \div (1024 * 1024)) \o <<"M","B",")",".">>,
        "destructive")

FileReadErrorToast(message) ==
  Toast("File ReadError", 0, 0, 0, 0, <<"C","o","u","l","d"," ","n","o","t"," ","r","e","a","d"," ","f","i","l","e",":"," ">> \o message,
        "destructive")

\* The state of the page a render has closed over, and the state the set
\* functions called since have written.
PageNow == [code |-> code, files |-> uploadedFolderFiles]

\* handleCodeChange as the render closed over it, after the writes in w.
handleCodeChangeOf(render, w, newCode) ==
  [w EXCEPT !.code = newCode,
            !.files = IF render.files # nullFiles THEN nullFiles ELSE @]

\* handleFolderSelect as the render closed over it, after the writes in w.
handleFolderSelectOf(render, w, files) ==
  [w EXCEPT !.files = files,
            !.code = IF files # nullFiles /\ Len(files) > 0
                     THEN FolderSummary(files)
                     ELSE IF startsWith(render.code, FOLDER_UPLOADED) THEN <<>>
                     ELSE @]

\* handleFiles(selectedFiles, false) for one selected file, up to its await.
handleFiles(file) ==
  /\ ~fileRead.pending
  /\ IF file.size > MAX_FILE_SIZE_BYTES
     THEN /\ lastToast' = FileTooLargeToast
          /\ \E w \in {handleFolderSelectOf(PageNow, PageNow, nullFiles)} :
               code' = w.code /\ uploadedFolderFiles' = w.files
          /\ UNCHANGED fileRead
     ELSE /\ fileRead' = [pending |-> TRUE, file |-> file, render |-> PageNow]
          /\ UNCHANGED << code, uploadedFolderFiles, lastToast >>
  /\ UNCHANGED << mermaidSyntax, isLoading, error, highlightedNodeText, loops >>
  /\ UNCHANGED viewVars

\* The awaited readFileAsText settles and handleFiles runs to its end, with
\* the setCode and onFolderSelect of the render the file was selected in.
FileReadSettles ==
  /\ fileRead.pending
  /\ LET read == readFileAsText(fileRead.file)
         render == fileRead.render
         written ==
           IF read.kind = "resolved"
           THEN handleFolderSelectOf(render,
                  handleCodeChangeOf(render, PageNow, read.value), nullFiles)
           ELSE handleFolderSelectOf(render, PageNow, nullFiles)
     IN /\ code' = written.code
        /\ uploadedFolderFiles' = written.files
        /\ lastToast' = IF read.kind = "resolved" THEN lastToast
                        ELSE FileReadErrorToast(read.message)
  /\ fileRead' = NoFileRead
  /\ UNCHANGED << mermaidSyntax, isLoading, error, highlightedNodeText, loops >>
  /\ UNCHANGED viewVars

\* ------------------------------------------------------------------------
\* handleGenerateDiagram
\* ------------------------------------------------------------------------
\* Faulty variant of GenerateInput: the code text is tested without trimming.
GenerateInput_Untrimmed(files, codeText) ==
  IF files # nullFiles /\ Len(files) > 0 THEN files
  ELSE IF truthy(codeText)
    THEN << UploadedFile(INPUT_CODE_PATH, codeText) >>
  ELSE nullFiles

\* The payload built from the page state; nullFiles when there is no usable
\* input.
GenerateInput(files, codeText) ==
  IF files # nullFiles /\ Len(files) > 0 THEN files
  ELSE IF truthy(trim(codeText))
    THEN << UploadedFile(INPUT_CODE_PATH, codeText) >>
  ELSE nullFiles

\* Faulty variant of isRetryable: the phrases are matched case-sensitively.
isRetryable_CaseSensitive(message) ==
  \/ includes(message, <<"5","0","3">>)
  \/ includes(message, <<"o","v","e","r","l","o","a","d","e","d">>)
  \/ includes(message, <<"t","r","y"," ","a","g","a","i","n"," ","l","a","t","e","r">>)

\* Faulty variant of isRetryable: any status of the 50x family is matched.
isRetryable_AnyServerError(message) ==
  \/ includes(message, <<"5","0">>)
  \/ includes(toLowerCase(message), <<"o","v","e","r","l","o","a","d","e","d">>)
  \/ includes(toLowerCase(message), <<"t","r","y"," ","a","g","a","i","n"," ","l","a","t","e","r">>)

\* The classification of a failure message, written twice in the handler.
isRetryable(message) ==
  \/ includes(message, <<"5","0","3">>)
  \/ includes(toLowerCase(message), <<"o","v","e","r","l","o","a","d","e","d">>)
  \/ includes(toLowerCase(message), <<"t","r","y"," ","a","g","a","i","n"," ","l","a","t","e","r">>)

\* Faulty variant of HasAttemptsLeft: off by one.
HasAttemptsLeft_OffByOne(attempts) == attempts <= MAX_RETRIES

\* attempts < MAX_RETRIES, the second conjunct of both retry conditions.
HasAttemptsLeft(attempts) == attempts < MAX_RETRIES

\* Faulty variant of LoopCondition: success does not end the loop.
LoopCondition_IgnoresSuccess(attempts, operationSuccessful) ==
  attempts <= MAX_RETRIES

\* The condition of the while loop.
LoopCondition(attempts, operationSuccessful) ==
  attempts <= MAX_RETRIES /\ ~operationSuccessful

\* Faulty variant of CaughtError: an error remembered earlier is kept.
CaughtError_KeepsEarlier(lastError, e) ==
  IF lastError # null THEN lastError ELSE e

\* lastError = e in the catch block; an Error is kept as its message.
CaughtError(lastError, e) == e

\* Faulty variant of FinalErrorMessage: the generic text replaces the message.
FinalErrorMessage_Generic(lastError) == FINAL_FALLBACK_MESSAGE

\* Faulty variant of FinalErrorMessage: the message is taken as it is.
FinalErrorMessage_NoFallback(lastError) == lastError

\* lastError.message || '...' after the loop.
FinalErrorMessage(lastError) == orElse(lastError, FINAL_FALLBACK_MESSAGE)

\* What one call did, as the page sees it.
Outcome(kind, text) == [kind |-> kind, text |-> text]

\* Faulty variant of LoadingAfterLoop: the busy flag is left set.
LoadingAfterLoop_Stuck == TRUE

\* setIsLoading(false), the last statement of the handler.
LoadingAfterLoop == FALSE

\* The statements after the loop, run for activation i with locals l;
\* syntaxNow and toastNow are the values the same run has already written.
AfterLoop(i, l, syntaxNow, toastNow) ==
  IF ~l.operationSuccessful /\ l.lastError # null
  THEN LET finalErrorMessage == FinalErrorMessage(l.lastError) IN
       /\ error' = finalErrorMessage
       /\ mermaidSyntax' = null
       /\ lastToast' = GenerationFailedToast(finalErrorMessage)
       /\ isLoading' = LoadingAfterLoop
       /\ loops' = [loops EXCEPT ![i] = [l EXCEPT !.pc = "Failed"]]
  ELSE /\ mermaidSyntax' = syntaxNow
       /\ lastToast' = toastNow
       /\ isLoading' = LoadingAfterLoop
       /\ loops' = [loops EXCEPT ![i] =
            [l EXCEPT !.pc = IF l.operationSuccessful THEN "Succeeded" ELSE "Ended"]]
       /\ UNCHANGED error

\* The head of the while loop: the next call is issued or the loop is left.
NextIteration(i, l, syntaxNow, toastNow) ==
  IF LoopCondition(l.attempts, l.operationSuccessful)
  THEN /\ loops' = [loops EXCEPT ![i] =
            [l EXCEPT !.pc = "Attempting", !.calls = @ + 1]]
       /\ mermaidSyntax' = syntaxNow
       /\ lastToast' = toastNow
       /\ UNCHANGED << error, isLoading >>
  ELSE AfterLoop(i, l, syntaxNow, toastNow)

\* attempts++, the progress toast and the start of the delay.
Retry(i, l, title) ==
  LET attempts == l.attempts + 1
      toast == ProgressToast(title, attempts) IN
  /\ loops' = [loops EXCEPT ![i] =
       [l EXCEPT !.attempts = attempts, !.pc = "Delaying",
                 !.timer = RETRY_DELAY_MS, !.delays = @ + 1,
                 !.progress = Append(@, toast)]]
  /\ lastToast' = toast
  /\ UNCHANGED << error, mermaidSyntax, isLoading >>

\* The catch block, for a caught Error with message e.
Catch(i, l, e) ==
  LET caught == [l EXCEPT !.lastError = CaughtError(l.lastError, e)]
      message == orElse(e, UNKNOWN_CAUGHT_MESSAGE) IN
  IF isRetryable(message) /\ HasAttemptsLeft(l.attempts)
  THEN Retry(i, caught, "Attempt Failed (Service Unavailable)")
  ELSE AfterLoop(i, caught, mermaidSyntax, lastToast)

\* The body of the try block once the awaited call has resolved.
Resolved(i, l, result) ==
  IF truthy(result.error)
  THEN IF isRetryable(result.error) /\ HasAttemptsLeft(l.attempts)
       THEN Retry(i, [l EXCEPT !.lastError = result.error],
                  "Attempt Failed (Model Overloaded)")
       ELSE Catch(i, l, result.error)
  ELSE IF truthy(result.mermaidDiagram)
  THEN NextIteration(i,
         [l EXCEPT !.operationSuccessful = TRUE, !.lastError = null],
         result.mermaidDiagram, DiagramGeneratedToast)
  ELSE Catch(i, l, NO_DIAGRAM_MESSAGE)

\* The activation that a new invocation of the handler gets.
NewLoopId ==
  CHOOSE i \in LoopIds :
    /\ ~Active(loops[i])
    /\ \A j \in LoopIds : ~Active(loops[j]) => i <= j

\* The page has rendered with the state a handler has written, and the
\* effects of the viewer have run.
PageRendered ==
  /\ UNCHANGED fileRead
  /\ UNCHANGED << pageMounted, mermaidInitialized, lastSettled, themeTokens,
                  themeVariables >>
  /\ MermaidViewerEffects

\* Faulty variant of AcceptedHighlight: the selection is kept.
AcceptedHighlight_Kept(current) == current

\* setHighlightedNodeText(null) of an accepted submission.
AcceptedHighlight(current) == null

\* An invocation of handleGenerateDiagram, up to its first await.
handleGenerateDiagram ==
  LET input == GenerateInput(uploadedFolderFiles, code) IN
  /\ \E i \in LoopIds : ~Active(loops[i])
  /\ IF input = nullFiles
     THEN /\ lastToast' = InputRequiredToast
          /\ UNCHANGED << mermaidSyntax, isLoading, error,
                          highlightedNodeText, loops >>
     ELSE /\ highlightedNodeText' = AcceptedHighlight(highlightedNodeText)
          /\ IF LoopCondition(0, FALSE)
             THEN /\ isLoading' = TRUE
                  /\ error' = null
                  /\ mermaidSyntax' = null
                  /\ loops' = [loops EXCEPT ![NewLoopId] =
                       [IdleLoop EXCEPT !.pc = "Attempting", !.input = input,
                                        !.calls = 1]]
                  /\ UNCHANGED lastToast
             ELSE /\ isLoading' = LoadingAfterLoop
                  /\ error' = null
                  /\ mermaidSyntax' = null
                  /\ loops' = [loops EXCEPT ![NewLoopId] =
                       [IdleLoop EXCEPT !.pc = "Ended", !.input = input]]
                  /\ UNCHANGED lastToast
  /\ UNCHANGED << code, uploadedFolderFiles >>
  /\ PageRendered

\* The user clicks the Generate button.
ClickGenerate == ~GenerateDisabled /\ handleGenerateDiagram

\* The awaited call of the server action resolves.
ActionResolves(i, reply) ==
  /\ loops[i].pc = "Attempting"
  /\ LET result == generateMermaidDiagramAction(loops[i].input, reply)
         outcome ==
           IF truthy(result.error) THEN Outcome("error", result.error)
           ELSE IF truthy(result.mermaidDiagram)
             THEN Outcome("diagram", result.mermaidDiagram)
           ELSE Outcome("empty", null)
     IN Resolved(i, [loops[i] EXCEPT !.history = Append(@, outcome)], result)
  /\ UNCHANGED << code, uploadedFolderFiles, highlightedNodeText >>
  /\ PageRendered

\* The awaited call of the server action rejects with an Error.
ActionRejects(i, message) ==
  /\ loops[i].pc = "Attempting"
  /\ Catch(i, [loops[i] EXCEPT !.history = Append(@, Outcome("thrown", message))],
           message)
  /\ UNCHANGED << code, uploadedFolderFiles, highlightedNodeText >>
  /\ PageRendered

\* Time passes while a delay is running.
Tick ==
  /\ \E i \in LoopIds : loops[i].pc = "Delaying" /\ loops[i].timer > 0
  /\ loops' = [i \in LoopIds |->
       IF loops[i].pc = "Delaying"
       THEN [loops[i] EXCEPT !.timer = IF @ > TickMs THEN @ - TickMs ELSE 0]
       ELSE loops[i]]
  /\ UNCHANGED << code, uploadedFolderFiles, mermaidSyntax, isLoading, error,
                  highlightedNodeText, lastToast >>
  /\ UNCHANGED << viewVars, fileRead >>

\* The timeout of the delay fires and the loop continues.
DelayElapses(i) ==
  /\ loops[i].pc = "Delaying"
  /\ loops[i].timer = 0
  /\ NextIteration(i, loops[i], mermaidSyntax, lastToast)
  /\ UNCHANGED << code, uploadedFolderFiles, highlightedNodeText >>
  /\ PageRendered

\* ------------------------------------------------------------------------
\* Specifications
\* ------------------------------------------------------------------------
\* The page is on display and its mount effects have run: events reach it.
Ready == pageMounted /\ mermaidInitialized

Next ==
  \/ initializeMermaid
  \/ \E newCode \in CodeTexts : Ready /\ TypeCode(newCode)
  \/ \E files \in FolderUploads \cup {nullFiles} :
       Ready /\ handleFolderSelect(files)
  \/ Ready /\ ClickGenerate
  \/ \E i \in LoopIds, reply \in PromptReplies :
       Ready /\ ActionResolves(i, reply)
  \/ \E i \in LoopIds, message \in RejectMessages :
       Ready /\ ActionRejects(i, message)
  \/ Ready /\ Tick
  \/ \E i \in LoopIds : Ready /\ DelayElapses(i)
  \/ \E g \in RenderIds, reply \in RenderReplies : RenderCompletes(g, reply)
  \/ \E k \in 1..MaxElements : Ready /\ ClickElement(k)
  \/ Unmount

Spec == Init /\ [][Next]_vars

\* The viewer followed while the style of the document changes.
NextTheme ==
  \/ initializeMermaid
  \/ \E sheet \in ThemeSheets : StyleChanges(sheet)
  \/ \E newCode \in ViewCodeTexts : Ready /\ TypeCode(newCode)
  \/ Ready /\ ClickGenerate
  \/ \E i \in LoopIds, reply \in ViewPromptReplies :
       Ready /\ ActionResolves(i, reply)
  \/ Ready /\ Tick
  \/ \E i \in LoopIds : Ready /\ DelayElapses(i)
  \/ \E g \in RenderIds, reply \in RenderReplies : RenderCompletes(g, reply)
  \/ \E k \in 1..MaxElements : Ready /\ ClickElement(k)
  \/ Unmount

SpecTheme == Init /\ [][NextTheme]_vars

\* Inputs of the runs that follow a request to its end.
LiveCodeTexts == { <<"l","e","t"," ","x"," ","="," ","1">> }
LivePromptReplies == {
  PromptOutput(<<"g","r","a","p","h"," ","T","D",";"," ","A","-","-",">","B">>),
  PromptOutput(<<"H","e","r","e"," ","y","o","u"," ","g","o">>),
  PromptError(<<"T","h","e"," ","m","o","d","e","l"," ","i","s"," ","O","v","e","r","l","o","a","d","e","d">>),
  PromptNonError }
LiveRejectMessages == { <<"H","T","T","P"," ","5","0","3">>, <<>> }

NextLive ==
  \/ initializeMermaid
  \/ \E newCode \in LiveCodeTexts : Ready /\ TypeCode(newCode)
  \/ Ready /\ ClickGenerate
  \/ \E i \in LoopIds, reply \in LivePromptReplies :
       Ready /\ ActionResolves(i, reply)
  \/ \E i \in LoopIds, message \in LiveRejectMessages :
       Ready /\ ActionRejects(i, message)
  \/ Ready /\ Tick
  \/ \E i \in LoopIds : Ready /\ DelayElapses(i)
  \/ \E g \in RenderIds, reply \in RenderReplies : RenderCompletes(g, reply)
  \/ Unmount

\* Every pending call of the server action resolves or rejects at some
\* time, time passes, and a timeout that has run down fires.
Fairness ==
  /\ \A i \in LoopIds :
       /\ WF_vars(Ready /\ (\/ \E reply \in LivePromptReplies : ActionResolves(i, reply)
                            \/ \E message \in LiveRejectMessages : ActionRejects(i, message)))
       /\ WF_vars(Ready /\ DelayElapses(i))
  /\ WF_vars(Ready /\ Tick)

SpecLive == Init /\ [][NextLive]_vars /\ Fairness

\* The handler invoked as a function by a caller that honours the busy flag
\* but does not look at the input, as the button does.
InvokeHandler == Ready /\ ~isLoading /\ handleGenerateDiagram

NextDirect == Next \/ InvokeHandler

SpecDirect == Init /\ [][NextDirect]_vars

\* The viewer followed with few inputs of the page, and with somebody who
\* keeps references to click handlers and calls them later.
NextViewer ==
  \/ initializeMermaid
  \/ \E newCode \in ViewCodeTexts : Ready /\ TypeCode(newCode)
  \/ \E files \in ViewFolderUploads \cup {nullFiles} :
       Ready /\ handleFolderSelect(files)
  \/ Ready /\ ClickGenerate
  \/ \E i \in LoopIds, reply \in ViewPromptReplies :
       Ready /\ ActionResolves(i, reply)
  \/ \E i \in LoopIds, message \in ViewRejectMessages :
       Ready /\ ActionRejects(i, message)
  \/ Ready /\ Tick
  \/ \E i \in LoopIds : Ready /\ DelayElapses(i)
  \/ \E g \in RenderIds, reply \in RenderReplies :
       ObservedRenderCompletes(g, reply)
  \/ \E k \in 1..MaxElements : Ready /\ ClickElement(k)
  \/ \E k \in 1..MaxElements : Ready /\ RetainHandler(k)
  \/ InvokeRetainedHandler
  \/ Unmount

SpecViewer == Init /\ [][NextViewer]_vars

\* The runs that follow the uploads of the editor.
NextUpload ==
  \/ initializeMermaid
  \/ \E newCode \in CodeTexts : Ready /\ TypeCode(newCode)
  \/ \E files \in FolderUploads \cup {nullFiles} :
       Ready /\ handleFolderSelect(files)
  \/ \E file \in SelectedFiles : Ready /\ handleFiles(file)
  \/ FileReadSettles
  \/ Unmount

SpecUpload == Init /\ [][NextUpload]_vars


\* ------------------------------------------------------------------------
\* Properties
\* ------------------------------------------------------------------------
\* The retryable phrases: "503", or "overloaded" or "try again later" in any
\* letter case.
MatchesRetryPhrase(message) ==
  \/ includes(message, <<"5","0","3">>)
  \/ includes(toLowerCase(message), <<"o","v","e","r","l","o","a","d","e","d">>)
  \/ includes(toLowerCase(message), <<"t","r","y"," ","a","g","a","i","n"," ","l","a","t","e","r">>)

Last(s) == s[Len(s)]

\* The call ended with a message: a returned {error} or a rejection.
Failure(outcome) == outcome.kind \in {"error", "thrown"}
RetryableFailure(outcome) == Failure(outcome) /\ MatchesRetryPhrase(outcome.text)

\* In this step activation i learns the outcome of its pending call.
CallEnded(i) == Len(loops'[i].history) = Len(loops[i].history) + 1

ActiveLoops == { i \in LoopIds : Active(loops[i]) }

\* C1: a request issues at most 3 calls (MAX_RETRIES + 1), whatever mix of
\* returned errors, rejections, empty results and successes it meets, and
\* its retry counter never exceeds MAX_RETRIES.
C1_CallBudget ==
  \A i \in LoopIds :
    /\ loops[i].calls <= 3
    /\ loops[i].calls <= MAX_RETRIES + 1
    /\ loops[i].attempts <= MAX_RETRIES
    /\ Len(loops[i].history) <= loops[i].calls
    /\ loops[i].delays = loops[i].attempts

\* Three calls were made, the first ended by a returned error and the second
\* by a rejection, so both paths have counted on the same counter.
C1_Witness ==
  \E i \in LoopIds :
    /\ loops[i].calls = 3
    /\ Len(loops[i].history) = 3
    /\ loops[i].history[1].kind = "error"
    /\ loops[i].history[2].kind = "thrown"
    /\ loops[i].attempts = MAX_RETRIES

C2_Step(i) ==
  LET l == loops[i]
      m == loops'[i] IN
  /\ (CallEnded(i) /\ RetryableFailure(Last(m.history)) /\ l.attempts < MAX_RETRIES)
       => /\ m.pc = "Delaying"
          /\ m.timer = RETRY_DELAY_MS
          /\ m.timer = 3000
          /\ m.progress = Append(l.progress, lastToast')
          /\ lastToast'.seconds = 3
          /\ m.delays = l.delays + 1
          /\ m.attempts = l.attempts + 1
          /\ m.calls = l.calls
  /\ (l.pc = "Delaying" /\ m.pc = "Delaying")
       => (m.timer <= l.timer /\ m.calls = l.calls /\ m.delays = l.delays)
  /\ (Active(l) /\ m.calls > l.calls)
       => (l.pc = "Delaying" /\ l.timer = 0 /\ m.pc = "Attempting"
           /\ m.calls = l.calls + 1)

\* C2: a failure whose message contains "503", or in any letter case
\* "overloaded" or "try again later", with fewer than MAX_RETRIES retries
\* used, emits one progress notification and starts one delay of
\* RETRY_DELAY_MS = 3000 ms; the next call is issued only once that delay has
\* run down, and never while a call or a delay of the request is pending.
C2_RetryAfterFixedDelay == [][\A i \in LoopIds : C2_Step(i)]_vars

\* The second call of a request has been issued after a failure that matches
\* only through the case-insensitive comparison.
C2_Witness ==
  \E i \in LoopIds :
    /\ loops[i].pc = "Attempting"
    /\ loops[i].calls = 2
    /\ loops[i].delays = 1
    /\ RetryableFailure(loops[i].history[1])
    /\ ~includes(loops[i].history[1].text, <<"5","0","3">>)
    /\ toLowerCase(loops[i].history[1].text) # loops[i].history[1].text

C3_Step(i) ==
  LET l == loops[i]
      m == loops'[i] IN
  /\ (CallEnded(i) /\ Failure(Last(m.history))
        /\ ~MatchesRetryPhrase(Last(m.history).text))
       => /\ m.pc = "Failed"
          /\ m.delays = l.delays
          /\ m.progress = l.progress
          /\ m.calls = l.calls
          /\ m.timer = l.timer
          /\ lastToast'.title = "Generation Failed"
          /\ error' # null
          /\ ~isLoading'
  /\ (l.pc = "Failed" /\ m # l) => (m.history = <<>> /\ m.delays = 0)

\* C3: a failure whose message matches no retryable phrase ends the request
\* as Failed with that call: no delay, no progress notification and no
\* further call, on whichever attempt it happens.
C3_FatalFailsAtOnce == [][\A i \in LoopIds : C3_Step(i)]_vars

\* A request failed on its second call, after one retry, with a message that
\* matches no phrase.
C3_Witness ==
  \E i \in LoopIds :
    /\ loops[i].pc = "Failed"
    /\ Len(loops[i].history) = 2
    /\ loops[i].calls = 2
    /\ Failure(loops[i].history[2])
    /\ loops[i].history[2].text # <<>>
    /\ ~MatchesRetryPhrase(loops[i].history[2].text)

AllThreeRetryable(l) ==
  /\ Len(l.history) >= 3
  /\ \A k \in 1..3 : RetryableFailure(l.history[k])

\* C4: when the three calls of a request all fail with a retryable message,
\* there are exactly 3 calls and 2 delays and the request is Failed with the
\* error state equal to the message of the third call.
C4_ExhaustedBudget ==
  \A i \in LoopIds :
    AllThreeRetryable(loops[i])
      => /\ loops[i].pc = "Failed"
         /\ loops[i].calls = 3
         /\ Len(loops[i].history) = 3
         /\ loops[i].delays = 2
         /\ error = loops[i].history[3].text
         /\ mermaidSyntax = null
         /\ ~isLoading

\* Three retryable failures whose third message differs from the first two.
C4_Witness ==
  \E i \in LoopIds :
    /\ AllThreeRetryable(loops[i])
    /\ loops[i].history[1].text # loops[i].history[3].text
    /\ loops[i].history[2].text # loops[i].history[3].text
    /\ loops[i].history[3].kind = "error"

RetryThenSuccess(l) ==
  /\ Len(l.history) >= 2
  /\ RetryableFailure(l.history[1])
  /\ l.history[2].kind = "diagram"

\* C5: when the first call fails with a retryable message and the second
\* succeeds, there is exactly 1 delay and no third call, the request is
\* Succeeded, the document is the diagram text of the second call and the
\* error state is unset.
C5_SecondCallSucceeds ==
  \A i \in LoopIds :
    RetryThenSuccess(loops[i])
      => /\ loops[i].pc = "Succeeded"
         /\ loops[i].calls = 2
         /\ Len(loops[i].history) = 2
         /\ loops[i].delays = 1
         /\ mermaidSyntax = loops[i].history[2].text
         /\ error = null
         /\ loops[i].lastError = null
         /\ ~isLoading

\* The first failure came back as a returned error, which the handler had
\* remembered in lastError, and the second call succeeded.
C5_Witness ==
  \E i \in LoopIds :
    /\ RetryThenSuccess(loops[i])
    /\ loops[i].history[1].kind = "error"
    /\ lastToast = DiagramGeneratedToast

\* No non-empty folder collection and a code text that is blank when trimmed.
NoUsableInput ==
  /\ uploadedFolderFiles = nullFiles \/ Len(uploadedFolderFiles) = 0
  /\ trim(code) = <<>>

\* C6: invoked without usable input, handleGenerateDiagram makes no call,
\* shows the Input Required toast in the same run and leaves the busy flag,
\* the error, the document and the highlight as they are.
C6_NoInputNoCall ==
  [][(NoUsableInput /\ handleGenerateDiagram)
       => /\ lastToast' = InputRequiredToast
          /\ UNCHANGED << isLoading, error, mermaidSyntax, highlightedNodeText,
                          loops, code, uploadedFolderFiles >>]_vars

\* The input error was reported over a blank code text while a document of
\* an earlier request and a highlight were present.
C6_Witness ==
  /\ lastToast = InputRequiredToast
  /\ NoUsableInput
  /\ code # <<>>
  /\ mermaidSyntax # null
  /\ highlightedNodeText # null
  /\ ~isLoading

C7_Step(i) ==
  LET l == loops[i]
      m == loops'[i]
      failedAtOnce ==
        /\ m.pc = "Failed"
        /\ m.delays = l.delays
        /\ m.progress = l.progress
        /\ m.calls = l.calls
        /\ error' # null
        /\ mermaidSyntax' = null
        /\ ~isLoading' IN
  /\ (CallEnded(i) /\ Last(m.history).kind = "empty") => failedAtOnce
  /\ \A reply \in {PromptOutput(<<>>), PromptOutput(null)} :
       ActionResolves(i, reply) => failedAtOnce

\* C7: a call that comes back without an error and without diagram text is
\* a fatal failure: no delay, no further call, and the request is Failed, on
\* whichever attempt it happens.
C7_EmptyResultIsFatal == [][\A i \in LoopIds : C7_Step(i)]_vars

\* The second call of a request, made after one retry, came back with
\* neither an error nor a diagram.
C7_Witness ==
  \E i \in LoopIds :
    /\ loops[i].pc = "Failed"
    /\ Len(loops[i].history) = 2
    /\ loops[i].history[2].kind = "empty"
    /\ loops[i].delays = 1
    /\ error = NO_DIAGRAM_MESSAGE

\* C8 as stated: whenever a request is Failed after a returned or thrown
\* error, the error state equals the message of that last failing call.
C8_VerbatimAlways ==
  \A i \in LoopIds :
    (loops[i].pc = "Failed" /\ Failure(Last(loops[i].history)))
      => error = Last(loops[i].history).text

\* C8: whenever a request is Failed after a returned or thrown error whose
\* message is not empty, the error state and the final toast carry that
\* message character for character; after a rejection with an empty
\* message they carry the fixed fallback text.
C8_VerbatimUnlessEmpty ==
  \A i \in LoopIds :
    (loops[i].pc = "Failed" /\ Failure(Last(loops[i].history)))
      => /\ error = IF Last(loops[i].history).text # <<>>
                    THEN Last(loops[i].history).text
                    ELSE FINAL_FALLBACK_MESSAGE
         /\ lastToast.description = error

\* A request failed on its third call, by a rejection whose message differs
\* from the messages of the two calls before.
C8_Witness ==
  \E i \in LoopIds :
    /\ loops[i].pc = "Failed"
    /\ Len(loops[i].history) = 3
    /\ loops[i].history[3].kind = "thrown"
    /\ loops[i].history[3].text # <<>>
    /\ error = loops[i].history[3].text
    /\ error # loops[i].history[1].text
    /\ error # loops[i].history[2].text

C9_State ==
  \A i \in LoopIds :
    /\ Active(loops[i]) => error = null
    /\ Len(loops[i].progress) = loops[i].delays
    /\ \A k \in 1..Len(loops[i].progress) :
         /\ loops[i].progress[k].attempt = k
         /\ loops[i].progress[k].nextAttempt = k + 1
         /\ loops[i].progress[k].total = 3
         /\ loops[i].progress[k].variant = "default"

C9_Step ==
  /\ \A i \in LoopIds :
       (CallEnded(i) /\ loops'[i].pc = "Delaying")
         => /\ lastToast' = Last(loops'[i].progress)
            /\ lastToast'.variant = "default"
            /\ error' = null
  /\ (error' # error /\ error' # null)
       => \E i \in LoopIds : loops[i].pc = "Attempting" /\ loops'[i].pc = "Failed"

\* C9: a retryable failure with attempts remaining shows only a progress
\* notification: while the request is active the error state is unset, there
\* are as many progress notifications as delays, the k-th one reports failed
\* attempt k and next attempt k+1 of 3, and the error state is set only in
\* the step in which a request becomes Failed.
C9_ProgressOnly == [][C9_State /\ C9_State' /\ C9_Step]_vars

\* A request is in its second delay: two progress notifications, no error.
C9_Witness ==
  \E i \in LoopIds :
    /\ loops[i].pc = "Delaying"
    /\ Len(loops[i].progress) = 2
    /\ lastToast = loops[i].progress[2]
    /\ error = null

\* C10: at most one request is active at a time, and while one is active
\* the busy flag is set and the Generate button is disabled.
C10_OneActiveRequest ==
  /\ Cardinality(ActiveLoops) <= 1
  /\ ActiveLoops # {} => (isLoading /\ GenerateDisabled)

\* A request is waiting for a retry while the code panel holds text that
\* would otherwise enable the button.
C10_Witness ==
  \E i \in LoopIds :
    /\ loops[i].pc = "Delaying"
    /\ truthy(trim(code))
    /\ isAnalyzingSinglePastedFile
    /\ isLoading

\* ------------------------------------------------------------------------
\* Properties of the diagram viewer
\* ------------------------------------------------------------------------
\* The closures whose isMounted flag is still set.
LiveRenders == { g \in DOMAIN renders : renders[g].isMounted }

\* The elements of the svg in the document; none without one.
DocumentSvg ==
  IF container.kind = "svg" THEN renders[container.render].elements ELSE <<>>

\* The elements of the svg behind the ref of the page; none when it is null.
RefSvg ==
  IF mermaidSvgElementRef # 0 THEN renders[mermaidSvgElementRef].elements
  ELSE <<>>

\* The sequence s without its g-th element.
Without(s, g) == SubSeq(s, 1, g - 1) \o SubSeq(s, g + 1, Len(s))

C11_Step ==
  \A g \in RenderIds, reply \in RenderReplies :
    (g \in DOMAIN renders /\ ~renders[g].isMounted /\ RenderSettles(g, reply))
      => /\ container'.kind = container.kind
         /\ DocumentSvg' = DocumentSvg
         /\ (mermaidSvgElementRef' = 0) = (mermaidSvgElementRef = 0)
         /\ RefSvg' = RefSvg
         /\ isDiagramLoaded' = isDiagramLoaded
         /\ internalError' = internalError
         /\ highlightedNodeText' = highlightedNodeText
         /\ renders' = Without(renders, g)

\* C11: when the mermaid.render call of a closure settles after the cleanup
\* of its effect has run (a newer document text arrived or the page was
\* closed), with an svg or with an error, the step writes nothing: the
\* container and the svg in it, the ref and the svg behind it, the loaded
\* flag and the render error stay as they are, no element of any svg gets
\* a listener (every other closure is untouched), and the closure is gone.
\* At most one closure has its isMounted flag set at any time.
C11_StaleRenderWritesNothing ==
  [](Cardinality(LiveRenders) <= 1) /\ [][C11_Step]_vars

\* A call has settled with an svg after the cleanup of its effect, while
\* the svg of the newer document text is on display.
C11_Witness ==
  /\ lastSettled = [kind |-> "svg", stale |-> TRUE]
  /\ container.kind = "svg"
  /\ isDiagramLoaded
  /\ renders[container.render].isMounted

\* C12: a click handler of an svg that has left the document (a newer
\* document text was rendered, or the page was closed) changes nothing when
\* it is called through a reference somebody kept: the selection and the
\* code panel stay as they are.
C12_StaleHandlerIsInert ==
  [][InvokeRetainedHandler
       => UNCHANGED << highlightedNodeText, code, uploadedFolderFiles >>]_vars

\* A kept handler of an earlier svg has been called while the svg of a
\* newer document text is on display and the selection is another one.
C12_Witness ==
  /\ retained.render # 0
  /\ retained.called
  /\ container.kind = "svg"
  /\ isDiagramLoaded
  /\ container.render # retained.render
  /\ highlightedNodeText #
       nodeTextContent(renders[retained.render].elements[retained.element].label)

C13_Step ==
  \A g \in RenderIds, reply \in RenderReplies :
    (/\ g \in DOMAIN renders
     /\ renders[g].isMounted
     /\ reply.kind \in {"error", "bindThrows"}
     /\ RenderSettles(g, reply))
      => /\ truthy(internalError')
         /\ startsWith(internalError', <<"M","e","r","m","a","i","d","L","i","b"," ","E","r","r","o","r",":"," ">>)
         /\ includes(internalError', reply.message)
         /\ mermaidSvgElementRef' = 0
         /\ ~isDiagramLoaded'
         /\ container'.kind # "svg"
         /\ DocumentSvg' = <<>>

\* C13: when mermaid.render rejects, or bindFunctions throws after the svg
\* was written, for a closure whose effect is installed, the step ends
\* with a render error that holds the message of the library, with the ref
\* null, the loaded flag false and no svg in the container.
C13_RenderErrorIsClean == [][C13_Step]_vars

\* bindFunctions threw after the svg had been written: the error is
\* recorded and nothing of the svg is left.
C13_Witness ==
  /\ lastSettled = [kind |-> "bindThrows", stale |-> FALSE]
  /\ truthy(internalError)
  /\ mermaidSvgElementRef = 0
  /\ ~isDiagramLoaded
  /\ container.kind # "svg"

\* The style an element has after a restyle pass for the selection text.
Emphasis(el, text) ==
  IF truthy(nodeTextContent(el.label)) /\ nodeTextContent(el.label) = text
  THEN "emphasis" ELSE "default"

\* Every element of the svg behind the ref is styled for the selection
\* text: emphasis exactly on the elements whose trimmed label is text.
StyledFor(svg, text) ==
  \A k \in DOMAIN svg :
    /\ svg[k].text = Emphasis(svg[k], text)
    /\ svg[k].hasShape => svg[k].shape = Emphasis(svg[k], text)

\* C14: after every restyle pass (the selection has changed and the ref
\* holds an svg) every element whose trimmed label is non-empty and equal
\* to the selection carries the emphasis style and every other element the
\* default style; elements with the same label are emphasised together and
\* none keeps the emphasis of an earlier selection.
C14_RestyleMatchesSelection ==
  [][(highlightedNodeText' # highlightedNodeText /\ mermaidSvgElementRef' # 0)
       => /\ StyledFor(RefSvg', highlightedNodeText')
          /\ \A j, k \in DOMAIN RefSvg' :
               nodeTextContent(RefSvg'[j].label) = nodeTextContent(RefSvg'[k].label)
                 => RefSvg'[j].text = RefSvg'[k].text]_vars

\* The two nodes labelled run are emphasised together, the group that was
\* or was not selected before is not.
C14_Witness ==
  /\ highlightedNodeText = <<"r","u","n">>
  /\ Len(RefSvg) = Len(FolderGraphic)
  /\ RefSvg[2].shape = "emphasis" /\ RefSvg[3].shape = "emphasis"
  /\ RefSvg[1].shape = "default" /\ RefSvg[4].shape = "default"

\* The text the listener that a click on element k of the svg reaches first
\* hands to setHighlightedNodeText.
Published(svg, k) == nodeTextContent(svg[Head(Dispatch(svg, k))].label)

\* C15: the selection is one text or none; a click on an element of the
\* svg on display makes the selection the text that click published,
\* whatever was selected before, and in the same step, before any further
\* event, the restyle pass has styled the svg behind the ref for it.
C15_LastClickWins ==
  [][\A k \in 1..MaxElements :
       (Ready /\ ClickElement(k))
         => /\ highlightedNodeText' = Published(DocumentSvg, k)
            /\ truthy(highlightedNodeText')
            /\ mermaidSvgElementRef' # 0
            /\ StyledFor(RefSvg', highlightedNodeText')]_vars

\* The group was clicked last: it is the selection, it alone is emphasised
\* and its file is in the code panel.
C15_Witness ==
  /\ highlightedNodeText = <<"s","r","c","/","a","p","p",".","t","s">>
  /\ container.kind = "svg"
  /\ Len(RefSvg) = Len(FolderGraphic)
  /\ RefSvg[1].shape = "emphasis"
  /\ RefSvg[2].shape = "default" /\ RefSvg[3].shape = "default"

\* C16: when a render of the installed effect has settled with an svg, a
\* restyle pass has run over the new svg: each of its elements carries the
\* emphasis or the default style that the selection of that moment asks
\* for.
C16_RestyleOnRenderCompletion ==
  [][\A g \in RenderIds, reply \in RenderReplies :
       (/\ g \in DOMAIN renders
        /\ renders[g].isMounted
        /\ reply.kind = "svg"
        /\ RenderSettles(g, reply))
         => /\ mermaidSvgElementRef' # 0
            /\ StyledFor(RefSvg', highlightedNodeText')]_vars

C17_Step ==
  (pageMounted' /\ highlightedNodeText' # highlightedNodeText)
    => IF SelectedFile(uploadedFolderFiles, highlightedNodeText') # 0
       THEN /\ code' = uploadedFolderFiles[
                         SelectedFile(uploadedFolderFiles,
                                      highlightedNodeText')].content
            /\ isDisplayingSelectedFile'
            /\ uploadedFolderFiles' = uploadedFolderFiles
       ELSE code' = code

\* C17: when the selection becomes the path of a file of the uploaded
\* collection, the code panel shows the content of that file, its text area
\* is read-only and the collection is kept; when it becomes anything else
\* the content of the code panel stays what it was.
C17_SelectionShowsFile == [][C17_Step]_vars

\* C18: a click on an element of the svg on display runs at most one
\* listener, the one of the innermost element that has one: for an element
\* with a listener that is its own and the one of the enclosing element
\* does not run; the selection becomes the text that listener publishes.
C18_OnePublishPerClick ==
  /\ [](\A k \in DOMAIN DocumentSvg :
          /\ Len(Dispatch(DocumentSvg, k)) <= 1
          /\ DocumentSvg[k].listeners > 0 => Dispatch(DocumentSvg, k) = <<k>>)
  /\ [][\A k \in 1..MaxElements :
          (Ready /\ ClickElement(k))
            => /\ Len(Dispatch(DocumentSvg, k)) = 1
               /\ highlightedNodeText' = Published(DocumentSvg, k)]_vars

\* A node with a listener inside a group with a listener is on display and
\* the text of the node, not the one of the group, is the selection.
C18_Witness ==
  /\ container.kind = "svg"
  /\ isDiagramLoaded
  /\ Len(DocumentSvg) = Len(FolderGraphic)
  /\ DocumentSvg[2].parent = 1
  /\ DocumentSvg[2].listeners = 1 /\ DocumentSvg[1].listeners = 1
  /\ highlightedNodeText = nodeTextContent(DocumentSvg[2].label)
  /\ highlightedNodeText # nodeTextContent(DocumentSvg[1].label)

C19_Step ==
  \A g \in RenderIds, reply \in RenderReplies :
    (/\ g \in DOMAIN renders
     /\ renders[g].isMounted
     /\ reply.kind = "svg"
     /\ RenderSettles(g, reply))
      => /\ DocumentSvg = <<>>
         /\ container'.kind = "svg"
         /\ container'.render = effectRender'

NoIdentity(el) == ~truthy(nodeTextContent(el.label))

\* C20: an element without label element, or whose label is empty once
\* trimmed, has no click listener and no pointer cursor, no click reaches
\* a listener of it, it never carries the emphasis style, and the selection
\* is never the empty text.
C20_NoIdentityNoInteraction ==
  /\ highlightedNodeText # <<>>
  /\ \A g \in DOMAIN renders :
       \A k \in DOMAIN renders[g].elements :
         NoIdentity(renders[g].elements[k])
           => /\ renders[g].elements[k].listeners = 0
              /\ ~renders[g].elements[k].hasClickHandler
              /\ renders[g].elements[k].cursor # "pointer"
              /\ renders[g].elements[k].shape # "emphasis"
              /\ renders[g].elements[k].text # "emphasis"
  /\ \A j, k \in DOMAIN DocumentSvg :
       NoIdentity(DocumentSvg[k])
         => \A n \in DOMAIN Dispatch(DocumentSvg, j) :
              Dispatch(DocumentSvg, j)[n] # k

\* A restyle pass has run over an svg with a blank label and with an
\* element without label: both carry the default style and no listener.
C20_Witness ==
  /\ container.kind = "svg"
  /\ highlightedNodeText # null
  /\ Len(DocumentSvg) = Len(FolderGraphic)
  /\ NoIdentity(DocumentSvg[4]) /\ NoIdentity(DocumentSvg[5])
  /\ DocumentSvg[4].text = "default" /\ DocumentSvg[5].text = "default"
  /\ DocumentSvg[4].listeners = 0 /\ DocumentSvg[5].listeners = 0

\* The keywords a diagram document may begin with, in lower case.
GraphTypeKeywords == {
  <<"g","r","a","p","h">>, <<"f","l","o","w","c","h","a","r","t">>, <<"s","e","q","u","e","n","c","e","d","i","a","g","r","a","m">>, <<"c","l","a","s","s","d","i","a","g","r","a","m">>,
  <<"s","t","a","t","e","d","i","a","g","r","a","m">>, <<"e","r","d","i","a","g","r","a","m">>, <<"g","a","n","t","t">>, <<"p","i","e">>, <<"j","o","u","r","n","e","y">>,
  <<"r","e","q","u","i","r","e","m","e","n","t","d","i","a","g","r","a","m">>, <<"c","4","c","o","n","t","e","x","t">>, <<"m","i","n","d","m","a","p">> }

\* The text begins, once trimmed and in any letter case, with a keyword.
BeginsWithGraphType(text) ==
  \E keyword \in GraphTypeKeywords :
    startsWith(toLowerCase(trim(text)), keyword)

\* C21: every document the flow returns, and so every document the page
\* stores, begins after trimming with a graph-type keyword in any letter
\* case; an output of the service that does not is answered with an error
\* and is never the outcome of a call nor the current document.
C21_DocumentBeginsWithGraphType ==
  /\ mermaidSyntax # null => BeginsWithGraphType(mermaidSyntax)
  /\ \A i \in LoopIds :
       /\ \A k \in 1..Len(loops[i].history) :
            loops[i].history[k].kind = "diagram"
              => BeginsWithGraphType(loops[i].history[k].text)
       /\ loops[i].pc = "Attempting"
            => \A reply \in PromptReplies :
                 LET flow == generateMermaidDiagramFlow(loops[i].input, reply)
                     result == generateMermaidDiagramAction(loops[i].input, reply)
                 IN /\ ~flow.threw => BeginsWithGraphType(flow.mermaidDiagram)
                    /\ (reply.kind = "output" /\ truthy(reply.text)
                          /\ ~BeginsWithGraphType(reply.text))
                         => (truthy(result.error) /\ result.mermaidDiagram = null)

\* The current document is one that starts with a blank and spells its
\* keyword with a capital letter.
C21_Witness ==
  /\ mermaidSyntax = <<" ","F","l","o","w","c","h","a","r","t"," ","L","R",";"," ","B","-","-",">","C">>
  /\ \E i \in LoopIds : loops[i].pc = "Succeeded"

Terminal(l) == l.pc \in {"Succeeded", "Failed"}

C28_Step(i) ==
  (~Terminal(loops[i]) /\ Terminal(loops'[i]))
    => /\ loops'[i].pc = "Succeeded"
            => (truthy(mermaidSyntax') /\ ~truthy(error'))
       /\ loops'[i].pc = "Failed"
            => (truthy(error') /\ mermaidSyntax' = null)
       /\ ~isLoading'

\* C28: when a request becomes Succeeded the document is set and the error
\* unset, when it becomes Failed the error is set and the document null; no
\* request ends in another way, and the document and the error are never
\* set together.
C28_DocumentXorError ==
  /\ [](/\ ~(truthy(mermaidSyntax) /\ truthy(error))
        /\ \A i \in LoopIds : loops[i].pc # "Ended"
        /\ (~isLoading /\ \E i \in LoopIds : Terminal(loops[i]))
             => (truthy(mermaidSyntax) \/ truthy(error)))
  /\ [][\A i \in LoopIds : C28_Step(i)]_vars

\* A request failed on a rejection without message: the error is set, to
\* the fallback text, and there is no document.
C28_Witness ==
  \E i \in LoopIds :
    /\ loops[i].pc = "Failed"
    /\ Last(loops[i].history).kind = "thrown"
    /\ Last(loops[i].history).text = <<>>
    /\ truthy(error)
    /\ mermaidSyntax = null

\* C29: a call whose prompt output fails the prefix check ends the request
\* as Failed in the same step, without retry, whatever the text of the
\* output.
C29_BadPrefixIsFatal ==
  [][\A i \in LoopIds, reply \in PromptReplies :
       (/\ reply.kind = "output"
        /\ truthy(reply.text)
        /\ ~BeginsWithGraphType(reply.text)
        /\ Ready /\ ActionResolves(i, reply))
         => loops'[i].pc = "Failed"]_vars

\* The result of the server action for a reply of the prompt call.
ActionResult(i, reply) == generateMermaidDiagramAction(loops[i].input, reply)

\* The result carries a document and no error.
CarriesDiagram(result) == truthy(result.mermaidDiagram) /\ result.error = null

C23_Step(i) ==
  (Active(loops[i]) /\ ~Active(loops'[i]))
    => \/ ~pageMounted'
       \/ /\ Terminal(loops'[i])
          /\ ~isLoading'
          /\ \E j \in LoopIds : ~Active(loops'[j])

\* C23: when every call of the server action resolves or rejects at some
\* time, an accepted submission ends, unless the page is closed first: its
\* request becomes Succeeded or Failed, the busy flag is cleared in that
\* step and a further submission can be accepted.
C23_Terminates ==
  /\ \A i \in LoopIds :
       Active(loops[i]) ~> (~pageMounted \/ (Terminal(loops[i]) /\ ~isLoading))
  /\ isLoading ~> ~isLoading
  /\ [][\A i \in LoopIds : C23_Step(i)]_vars

\* A request ended after three calls and two delays, and the busy flag is
\* cleared.
C23_Witness ==
  \E i \in LoopIds :
    /\ Terminal(loops[i])
    /\ loops[i].calls = 3 /\ loops[i].delays = 2
    /\ ~isLoading
    /\ pageMounted

TokenValue(name) == trim(themeTokens[name])

IsDirectColor(value) ==
  \/ startsWith(value, <<"h","s","l","(">>)
  \/ startsWith(value, <<"r","g","b","(">>)
  \/ startsWith(value, <<"#">>)

\* What the theme resolver is to return for a token read from the style of
\* this state.
ResolvedToken(name, fallback) ==
  IF TokenValue(name) = <<>> THEN fallback
  ELSE IF IsDirectColor(TokenValue(name)) THEN TokenValue(name)
  ELSE <<"h","s","l","(">> \o TokenValue(name) \o <<")">>

\* C22: at initialisation every token is resolved like this: a non-empty
\* value that starts with "hsl(", "rgb(" or "#" is taken as it is, any other
\* non-empty value is wrapped as hsl(<value>), an empty or absent value gives
\* the fallback of the token; no colour handed to the library is empty.
C22_ThemeResolver ==
  [][initializeMermaid
       => /\ themeVariables'.primaryBorderColor = ResolvedToken("--primary", <<"#","4","B","0","0","8","2">>)
          /\ themeVariables'.lineColor = ResolvedToken("--primary", <<"#","4","B","0","0","8","2">>)
          /\ themeVariables'.background = ResolvedToken("--background", <<"#","F","5","F","5","F","5">>)
          /\ themeVariables'.primaryColor = ResolvedToken("--background", <<"#","F","5","F","5","F","5">>)
          /\ themeVariables'.textColor = ResolvedToken("--foreground", <<"#","0","A","0","A","0","A">>)
          /\ themeVariables'.primaryTextColor = ResolvedToken("--foreground", <<"#","0","A","0","A","0","A">>)
          /\ themeVariables'.mainBkg = ResolvedToken("--accent", <<"#","E","E","8","2","E","E">>)
          /\ themeVariables'.secondaryColor = ResolvedToken("--accent", <<"#","E","E","8","2","E","E">>)
          /\ themeVariables'.tertiaryColor = ResolvedToken("--card", <<"#","F","F","F","F","F","F">>)
          /\ themeVariables'.clusterBkg = ResolvedToken("--card", <<"#","F","F","F","F","F","F">>)
          /\ \A field \in DOMAIN themeVariables' \ {"configured"} :
               themeVariables'[field] # <<>>]_vars

\* The library was configured from a style sheet with a direct colour, a
\* padded value of components and an unset property.
C22_Witness ==
  /\ mermaidInitialized
  /\ themeVariables.lineColor = <<"h","s","l","(","2","7","1",","," ","1","0","0","%",","," ","2","5","%",")">>
  /\ themeVariables.background = <<"h","s","l","(","0"," ","0","%"," ","9","6","%",")">>
  /\ themeVariables.textColor = <<"#","0","A","0","A","0","A">>
  /\ themeVariables.clusterBkg = <<"r","g","b","(","2","5","5",","," ","2","5","5",","," ","2","5","5",")">>

\* C24: two mermaid.render calls that are pending at the same time have
\* been given different ids.
C24_UniqueRenderIds ==
  \A g, h \in DOMAIN renders :
    (g # h /\ renders[g].pc = "rendering" /\ renders[h].pc = "rendering")
      => renders[g].id # renders[h].id

\* C25: the emphasis colours of a restyle pass are what the theme resolver
\* gives for the tokens as they are at that pass: the accent for the fill
\* and the primary colour for the stroke, with the fallbacks of the
\* initialisation.
C25_PassUsesResolver ==
  [][(highlightColors' # highlightColors /\ highlightColors'.styled)
       => /\ highlightColors'.fill = ResolvedToken("--accent", <<"#","E","E","8","2","E","E">>)'
          /\ highlightColors'.stroke = ResolvedToken("--primary", <<"#","4","B","0","0","8","2">>)']_vars

\* C26: the library is configured once in the life of the view, when the
\* initialised flag goes from unset to set, and the flag stays set; while a
\* render is pending for the installed effect, or a restyle pass has styled
\* the svg behind the ref, the flag is set and the library configured, and
\* while the flag is unset no render has been issued and nothing is styled.
C26_ConfiguredOnceBeforeUse ==
  /\ [](/\ mermaidInitialized <=> themeVariables.configured
        /\ (pageMounted /\ ~mermaidInitialized)
             => (renders = <<>> /\ mermaidSvgElementRef = 0)
        /\ ~mermaidInitialized
             => /\ ~highlightColors.styled
                /\ effectRender = 0
                /\ \A g \in DOMAIN renders : ~renders[g].isMounted)
  /\ [][/\ themeVariables' # themeVariables
             => \/ ~mermaidInitialized /\ mermaidInitialized'
                \/ ~pageMounted'
        /\ (mermaidInitialized /\ pageMounted') => mermaidInitialized'
        /\ (\/ Len(renders') > Len(renders)
            \/ highlightColors' # highlightColors /\ highlightColors'.styled)
             => /\ mermaidInitialized /\ mermaidInitialized'
                /\ themeVariables.configured
                /\ themeVariables' = themeVariables]_vars

\* The style has changed after the library was configured, a render is
\* pending and the svg of the render before it was restyled: the theme is
\* still the one of the initialisation.
C26_Witness ==
  /\ mermaidInitialized
  /\ themeVariables = ThemeVariables(ComponentsSheet)
  /\ themeTokens # ComponentsSheet
  /\ \E g \in DOMAIN renders : renders[g].pc = "rendering" /\ renders[g].isMounted

\* ------------------------------------------------------------------------
\* The handle of export, the payload, single-file uploads, selections
\* across renders
\* ------------------------------------------------------------------------
\* The render the effect of the current document text has started, if it
\* is still in flight.
RenderInFlight ==
  effectRender # 0 /\ renders[effectRender].pc = "rendering"

\* C31: the handle export reads is non-null only while the graphic of the
\* current document is on display: it is null when there is no document,
\* while the render of the current document is in flight and after a
\* render failure, and when it is set it names the render the effect of
\* the current document started, whose svg is the one in the container.
C31_HandleNamesCurrentGraphic ==
  /\ ~truthy(mermaidSyntax) => mermaidSvgElementRef = 0
  /\ RenderInFlight => mermaidSvgElementRef = 0
  /\ internalError # null => mermaidSvgElementRef = 0
  /\ mermaidSvgElementRef # 0 =>
       /\ mermaidSvgElementRef = effectRender
       /\ renders[mermaidSvgElementRef].pc = "done"
       /\ renders[mermaidSvgElementRef].isMounted
       /\ container = SvgOf(mermaidSvgElementRef)
       /\ isDiagramLoaded

\* The handle names the graphic of the current document while the render
\* of a document it replaced has not settled yet.
C31_Witness ==
  /\ mermaidSvgElementRef # 0
  /\ container = SvgOf(mermaidSvgElementRef)
  /\ \E g \in DOMAIN renders :
       g # mermaidSvgElementRef /\ renders[g].pc = "rendering"

\* The payload of an activation that has called the service.
Submitted(l) == l.calls > 0

\* A collection with at least one file is loaded.
FolderLoaded(files) == files # nullFiles /\ Len(files) > 0

\* This step accepts a submission as activation i.
Accepts(i) == ~Submitted(loops[i]) /\ Submitted(loops'[i])

\* C32, the payloads: no activation sends an empty payload to the service.
C32_PayloadNeverEmpty ==
  \A i \in LoopIds :
    Submitted(loops[i]) =>
      /\ loops[i].input # nullFiles
      /\ Len(loops[i].input) > 0
      /\ \A k \in 1..Len(loops[i].input) : loops[i].input[k].path # null

\* C32, the steps: an accepted submission sends the loaded collection as it
\* is when one is loaded, and otherwise the single entry input_code.txt
\* with the code text; an edit of the code text leaves no collection.
C32_Step ==
  /\ \A i \in LoopIds :
       Accepts(i) =>
         loops'[i].input =
           IF FolderLoaded(uploadedFolderFiles) THEN uploadedFolderFiles
           ELSE << [path |-> <<"i","n","p","u","t","_","c","o","d","e",".","t","x","t">>, content |-> code] >>
  /\ (\E newCode \in CodeTexts \cup ViewCodeTexts : TypeCode(newCode)) =>
       uploadedFolderFiles' = nullFiles

\* C32: the payload is never empty and follows the precedence folder
\* collection, then code text; editing the code text while a collection is
\* loaded clears the collection.
C32_PayloadPrecedence == []C32_PayloadNeverEmpty /\ [][C32_Step]_vars

\* A submission is under way whose payload is the loaded collection of two
\* files, in their order, although the code panel holds text as well.
C32_Witness ==
  \E i \in LoopIds :
    /\ Active(loops[i])
    /\ FolderLoaded(uploadedFolderFiles)
    /\ Len(uploadedFolderFiles) = 2
    /\ loops[i].input = uploadedFolderFiles
    /\ truthy(trim(code))

\* The read of a single-file upload settles in this step with the text of
\* the file.
ReadSucceeds ==
  /\ fileRead.pending /\ ~fileRead'.pending /\ pageMounted'
  /\ fileRead.file.readable
  /\ fileRead.file.text # null

\* C33: after a single-file upload has been read successfully the code
\* panel holds the content of the file and no folder collection is loaded,
\* whatever the page held when the file was selected.
C33_SingleFileReplacesPanel ==
  [][ReadSucceeds /\ readFileAsText(fileRead.file).kind = "resolved"
      /\ readFileAsText(fileRead.file).value = fileRead.file.text
       => /\ code' = fileRead.file.text
          /\ uploadedFolderFiles' = nullFiles]_vars

\* An element of the document has a click listener.
InteractiveElementExists ==
  /\ container.kind = "svg"
  /\ \E k \in DOMAIN renders[container.render].elements :
       renders[container.render].elements[k].listeners > 0

\* The selection is the text of an element of the svg behind the handle,
\* which is the one in the document.
SelectionOnCurrentGraphic ==
  /\ mermaidSvgElementRef # 0
  /\ container = SvgOf(mermaidSvgElementRef)
  /\ \E k \in DOMAIN renders[mermaidSvgElementRef].elements :
       nodeTextContent(renders[mermaidSvgElementRef].elements[k].label)
         = highlightedNodeText

\* C34, the states: while no graphic is behind the handle (from acceptance
\* to the completion of the render) no element of the document can be
\* clicked, and a selection is one made on the graphic on display.
C34_State ==
  /\ mermaidSvgElementRef = 0 => ~InteractiveElementExists
  /\ isLoading => ~InteractiveElementExists
  /\ highlightedNodeText # null => SelectionOnCurrentGraphic

\* C34, the steps: when a render completes successfully, which puts its svg
\* behind the handle, the selection is none before and after.
C34_Step ==
  (mermaidSvgElementRef = 0 /\ mermaidSvgElementRef' # 0)
    => highlightedNodeText = null /\ highlightedNodeText' = null

\* C34: at every successful completion of a render the selection is none,
\* and no selection made on an earlier graphic carries over to a new one.
C34_NoSelectionAtCompletion == []C34_State /\ [][C34_Step]_vars

\* The render of a newer document has completed and its svg is on display
\* without selection, and a click handler kept from the graphic of an
\* earlier document has been called.
C34_Witness ==
  /\ lastSettled = [kind |-> "svg", stale |-> FALSE]
  /\ mermaidSvgElementRef # 0
  /\ container = SvgOf(mermaidSvgElementRef)
  /\ highlightedNodeText = null
  /\ retained.render # 0
  /\ retained.called
  /\ retained.render # mermaidSvgElementRef

====
